---- MODULE Spec2Model ----
(***************************************************************************)
(* Model of the Dashboard-Shopee ingestion pipeline: the useGoogleSheet    *)
(* hook (fetch / upload -> Papa.parse -> coercion -> data, loading, error) *)
(* and the view selection of App.                                          *)
(*                                                                         *)
(* The source tree holds two revisions of the hook:                        *)
(*   revision 1  src/src/hooks/useGoogleSheet.ts, lines 1-119              *)
(*   revision 2  src/src/components/ui/Select.tsx, lines 37-187            *)
(* Revision 2 adds transformHeader, extractSpxStatus / latest_spx_status   *)
(* and a wider CORS classification.  The variable revision says which one  *)
(* is running; everything else is shared.                                  *)
(*                                                                         *)
(* JavaScript strings are sequences of one-character strings, so that      *)
(* trim, toLowerCase, startsWith, includes, replace and Number are         *)
(* computed and not assumed.                                               *)
(***************************************************************************)
EXTENDS Integers, Sequences, FiniteSets, Bags, TLC

VARIABLES
    revision,   \* which revision of the hook is running (1 or 2)
    phase,      \* "constructed" (useState done, effect not yet run), "mounted"
                \* or "unmounted" (the effect's cleanup has run)
    data,       \* useState<ShipmentData[]>([])
    loading,    \* useState(true)
    error,      \* useState<string | null>(null)
    inflight,   \* bag of ingestions started and not yet completed
    last,       \* history: the ingestion completed by the step just taken
    hist,       \* history: record sequences of the last two successful ingestions
    trigger,    \* history: the entry point the step just taken ran, or "none"
    arg,        \* the input of a function applied on its own (a header, a row)
    res,        \* the results of applying it, in order
    ui          \* the state of App (activeTab) and of the page it renders

hookVars == <<revision, phase, data, loading, error, inflight, last, hist, trigger>>

vars == <<hookVars, arg, res, ui>>

\* At most this many ingestions overlap (fetchData has no cancellation and
\* no guard, so the code itself has no limit).
MaxInflight == 2

-----------------------------------------------------------------------------
(* JavaScript values *)

\* null (the initial error state, and setError(null)).  Its single element is
\* not a character, so it equals no string.
Null == <<"null">>

\* undefined: the value of a property a row does not have.
Undefined == <<"undefined">>

IsString(v) == v # Null /\ v # Undefined

\* JavaScript truthiness of a string-or-undefined-or-null value.
Truthy(v) == IsString(v) /\ v # <<>>

\* x || dflt for a string-or-undefined x.
OrDefault(v, dflt) == IF Truthy(v) THEN v ELSE dflt

\* JavaScript numbers: finite integers, NaN, +Infinity and -Infinity.
Fin(n) == [k |-> "fin", v |-> n]

NaN == [k |-> "nan", v |-> 0]

Infinity == [k |-> "inf", v |-> 1]

NegInfinity == [k |-> "inf", v |-> -1]

\* Number(x) || 0: NaN, 0 and -0 are falsy.
OrZero(n) == IF n.k = "nan" \/ (n.k = "fin" /\ n.v = 0) THEN Fin(0) ELSE n

-----------------------------------------------------------------------------
(* String.prototype operations *)

UpperLetters == <<"A","B","C","D","E","F","G","H","I","J","K","L","M","N","O","P","Q","R","S","T","U","V",
                  "W","X","Y","Z">>

LowerLetters == <<"a","b","c","d","e","f","g","h","i","j","k","l","m","n","o","p","q","r","s","t","u","v",
                  "w","x","y","z">>

Digits == <<"0","1","2","3","4","5","6","7","8","9">>

Range(s) == {s[i] : i \in DOMAIN s}

IsWhitespace(c) == c \in {" ", "\t", "\n", "\r"}

ToLowerChar(c) ==
    LET at == {i \in DOMAIN UpperLetters : UpperLetters[i] = c}
    IN  IF at = {} THEN c ELSE LowerLetters[CHOOSE i \in at : TRUE]

\* s.toLowerCase()
ToLowerCase(s) == [i \in DOMAIN s |-> ToLowerChar(s[i])]

RECURSIVE TrimStart(_)
TrimStart(s) ==
    IF s # <<>> /\ IsWhitespace(Head(s)) THEN TrimStart(Tail(s)) ELSE s

RECURSIVE TrimEnd(_)
TrimEnd(s) ==
    IF s # <<>> /\ IsWhitespace(s[Len(s)])
    THEN TrimEnd(SubSeq(s, 1, Len(s) - 1))
    ELSE s

\* s.trim()
Trim(s) == TrimEnd(TrimStart(s))

\* s.startsWith(p)
StartsWith(s, p) == Len(s) >= Len(p) /\ SubSeq(s, 1, Len(p)) = p

\* s.includes(p)
Includes(s, p) ==
    \E i \in 1..(Len(s) - Len(p) + 1) : SubSeq(s, i, i + Len(p) - 1) = p

\* s.replace(/\s+/g, '_'): every maximal run of whitespace becomes one '_'.
RECURSIVE ReplaceWhitespaceRuns(_)
ReplaceWhitespaceRuns(s) ==
    IF s = <<>> THEN <<>>
    ELSE IF IsWhitespace(Head(s))
         THEN <<"_">> \o ReplaceWhitespaceRuns(TrimStart(s))
         ELSE <<Head(s)>> \o ReplaceWhitespaceRuns(Tail(s))

\* s.replace(/[^a-z0-9]/g, '')
StripNonAlnum(s) ==
    SelectSeq(s, LAMBDA c : c \in Range(LowerLetters) \cup Range(Digits))

\* s.split(sep) for a one-character separator: the pieces between
\* consecutive occurrences of sep, in order.
Split(s, sep) ==
    LET at == SelectSeq([i \in DOMAIN s |-> i], LAMBDA i : s[i] = sep)
        From(n) == IF n = 1 THEN 1 ELSE at[n - 1] + 1
        To(n) == IF n = Len(at) + 1 THEN Len(s) ELSE at[n] - 1
    IN  [n \in 1..(Len(at) + 1) |-> SubSeq(s, From(n), To(n))]

DigitValue(c) == (CHOOSE i \in DOMAIN Digits : Digits[i] = c) - 1

RECURSIVE DigitsValue(_)
DigitsValue(s) ==
    IF s = <<>> THEN 0
    ELSE 10 * DigitsValue(SubSeq(s, 1, Len(s) - 1)) + DigitValue(s[Len(s)])

IsDigits(s) == s # <<>> /\ \A i \in DOMAIN s : s[i] \in Range(Digits)

\* Number(x) for x a string or undefined (StringToNumber): surrounding
\* whitespace is ignored, the empty string is 0, an optional sign precedes
\* decimal digits or the literal Infinity, and anything else is NaN.  The
\* cells of the model hold no '.', exponent or radix prefix.
NumberOf(x) ==
    IF ~IsString(x) THEN NaN
    ELSE LET t    == Trim(x)
             neg  == t # <<>> /\ Head(t) = "-"
             sign == t # <<>> /\ Head(t) \in {"-", "+"}
             body == IF sign THEN Tail(t) ELSE t
         IN  IF t = <<>> THEN Fin(0)
             ELSE IF body = <<"I","n","f","i","n","i","t","y">>
                  THEN (IF neg THEN NegInfinity ELSE Infinity)
             ELSE IF IsDigits(body)
                  THEN Fin(IF neg THEN 0 - DigitsValue(body) ELSE DigitsValue(body))
             ELSE NaN

\* `${n}` for a natural number n.
RECURSIVE ToDecimal(_)
ToDecimal(n) ==
    IF n < 10 THEN <<Digits[n + 1]>>
    ELSE ToDecimal(n \div 10) \o <<Digits[(n % 10) + 1]>>

-----------------------------------------------------------------------------
(* Papa.parse(input, {header: true, skipEmptyLines: true, transformHeader}) *)

\* Fault variant of transformHeader: the pattern lacks the g flag, so only
\* the first run of whitespace is replaced.
transformHeaderFirstRunOnly(header) ==
    LET s  == ToLowerCase(Trim(header))
        ws == {i \in DOMAIN s : IsWhitespace(s[i])}
        a  == CHOOSE i \in ws : \A j \in ws : i <= j
    IN  IF ws = {} THEN s
        ELSE SubSeq(s, 1, a - 1) \o <<"_">> \o TrimStart(SubSeq(s, a, Len(s)))

\* transformHeader of revision 2; revision 1 passes none, so headers stay raw.
transformHeader(header) == ReplaceWhitespaceRuns(ToLowerCase(Trim(header)))

HeaderOf(rev, header) == IF rev = 2 THEN transformHeader(header) ELSE header

\* One parsed row: the ordered key/value pairs of the object Papa builds
\* (Object.keys order is header order).  A row shorter than the header has
\* no property for the missing columns.
RowOf(header, fields) ==
    [j \in 1..(IF Len(header) < Len(fields) THEN Len(header) ELSE Len(fields)) |->
        [k |-> header[j], v |-> fields[j]]]

\* results.data: the first line is the header, empty lines are skipped, one
\* row per remaining line in source order.  The inputs of the model hold no
\* quotes, no duplicate header and no line longer than the header.
PapaParse(rev, text) ==
    LET lines     == Split(text, "\n")
        rawHeader == Split(lines[1], ",")
        header    == [j \in DOMAIN rawHeader |-> HeaderOf(rev, rawHeader[j])]
        dataLines == SelectSeq(Tail(lines), LAMBDA l : l # <<>>)
    IN  [i \in DOMAIN dataLines |-> RowOf(header, Split(dataLines[i], ","))]

\* row[key]
Get(row, key) ==
    IF \E j \in DOMAIN row : row[j].k = key
    THEN row[CHOOSE j \in DOMAIN row : row[j].k = key].v
    ELSE Undefined

-----------------------------------------------------------------------------
(* Field names and literals of the hook *)

K_shipment_id == <<"s","h","i","p","m","e","n","t","_","i","d">>

K_latest_station_name == <<"l","a","t","e","s","t","_","s","t","a","t","i","o","n","_","n","a","m","e">>

K_responsability == <<"r","e","s","p","o","n","s","a","b","i","l","i","t","y">>

K_days_open_in_station == <<"d","a","y","s","_","o","p","e","n","_","i","n","_","s","t","a","t","i","o","n">>

K_days_open_since_rts == <<"d","a","y","s","_","o","p","e","n","_","s","i","n","c","e","_","r","t","s">>

K_days_stuck == <<"d","a","y","s","_","s","t","u","c","k">>

K_stuck_aging == <<"s","t","u","c","k","_","a","g","i","n","g">>

K_since_drop_aging == <<"s","i","n","c","e","_","d","r","o","p","_","a","g","i","n","g">>

K_in_station_aging == <<"i","n","_","s","t","a","t","i","o","n","_","a","g","i","n","g">>

K_lastest_spx_status == <<"l","a","s","t","e","s","t","_","s","p","x","_","s","t","a","t","u","s">>

K_latest_spx_status == <<"l","a","t","e","s","t","_","s","p","x","_","s","t","a","t","u","s">>

K_spx_status == <<"s","p","x","_","s","t","a","t","u","s">>

possibleNames ==
    << <<"l","a","s","t","e","s","t","s","p","x","s","t","a","t","u","s">>, <<"l","a","t","e","s","t","s","p","x","s","t","a","t","u","s">>, <<"s","p","x","s","t","a","t","u","s">>,
       <<"s","t","a","t","u","s","s","p","x">>, <<"s","t","a","t","u","s">> >>

\* The index of the first element of s satisfying P, or 0 (Array.find).
FindFirst(s, P(_)) ==
    IF \E i \in DOMAIN s : P(s[i])
    THEN CHOOSE i \in DOMAIN s : P(s[i]) /\ \A m \in 1..(i - 1) : ~P(s[m])
    ELSE 0

\* Fault variant of extractSpxStatus: the correctly spelled key is read
\* before the misspelled one, and an empty exact cell ends the search.
extractSpxStatusByPresence(row) ==
    IF IsString(Get(row, K_latest_spx_status)) THEN Get(row, K_latest_spx_status)
    ELSE IF IsString(Get(row, K_lastest_spx_status)) THEN Get(row, K_lastest_spx_status)
    ELSE IF IsString(Get(row, K_spx_status)) THEN Get(row, K_spx_status)
    ELSE <<>>

\* Fault variant of extractSpxStatus: row.lastest_spx_status ||
\* row.latest_spx_status || row.spx_status, with no fallback and no default.
extractSpxStatusExactOnly(row) ==
    IF Truthy(Get(row, K_lastest_spx_status)) THEN Get(row, K_lastest_spx_status)
    ELSE IF Truthy(Get(row, K_latest_spx_status)) THEN Get(row, K_latest_spx_status)
    ELSE Get(row, K_spx_status)

\* extractSpxStatus of revision 2.
extractSpxStatus(row) ==
    LET normalizedKeys ==
            [j \in DOMAIN row |->
                [original |-> row[j].k,
                 normalized |-> StripNonAlnum(ToLowerCase(row[j].k))]]
        ValueAt(j) == Get(row, normalizedKeys[j].original)
        NameMatch(name) == FindFirst(normalizedKeys, LAMBDA e : e.normalized = name)
        NameHit(name) == NameMatch(name) # 0 /\ Truthy(ValueAt(NameMatch(name)))
        firstName == FindFirst(possibleNames, NameHit)
        partialMatch ==
            FindFirst(normalizedKeys,
                      LAMBDA e : Includes(e.normalized, <<"s","p","x">>)
                                 /\ Includes(e.normalized, <<"s","t","a","t","u","s">>))
        spxMatch == FindFirst(normalizedKeys, LAMBDA e : Includes(e.normalized, <<"s","p","x">>))
    IN  IF Truthy(Get(row, K_lastest_spx_status)) THEN Get(row, K_lastest_spx_status)
        ELSE IF Truthy(Get(row, K_latest_spx_status)) THEN Get(row, K_latest_spx_status)
        ELSE IF Truthy(Get(row, K_spx_status)) THEN Get(row, K_spx_status)
        ELSE IF firstName # 0 THEN ValueAt(NameMatch(possibleNames[firstName]))
        ELSE IF partialMatch # 0 /\ Truthy(ValueAt(partialMatch)) THEN ValueAt(partialMatch)
        ELSE IF spxMatch # 0 /\ Truthy(ValueAt(spxMatch)) THEN ValueAt(spxMatch)
        ELSE <<>>

\* row.f || ''
StringField(row, key) == OrDefault(Get(row, key), <<>>)

\* Number(row.f) || 0
NumberField(row, key) == OrZero(NumberOf(Get(row, key)))

\* The object literal of results.data.map in revision 1 (nine fields).
CoerceRow1(row) ==
    [shipment_id          |-> StringField(row, K_shipment_id),
     latest_station_name  |-> StringField(row, K_latest_station_name),
     responsability       |-> StringField(row, K_responsability),
     days_open_in_station |-> NumberField(row, K_days_open_in_station),
     days_open_since_rts  |-> NumberField(row, K_days_open_since_rts),
     days_stuck           |-> NumberField(row, K_days_stuck),
     stuck_aging          |-> StringField(row, K_stuck_aging),
     since_drop_aging     |-> StringField(row, K_since_drop_aging),
     in_station_aging     |-> StringField(row, K_in_station_aging)]

\* The object literal of results.data.map in revision 2 (adds latest_spx_status).
CoerceRow2(row) ==
    [shipment_id          |-> StringField(row, K_shipment_id),
     latest_station_name  |-> StringField(row, K_latest_station_name),
     responsability       |-> StringField(row, K_responsability),
     days_open_in_station |-> NumberField(row, K_days_open_in_station),
     days_open_since_rts  |-> NumberField(row, K_days_open_since_rts),
     days_stuck           |-> NumberField(row, K_days_stuck),
     stuck_aging          |-> StringField(row, K_stuck_aging),
     since_drop_aging     |-> StringField(row, K_since_drop_aging),
     in_station_aging     |-> StringField(row, K_in_station_aging),
     latest_spx_status    |-> extractSpxStatus(row)]

CoerceRow(rev, row) == IF rev = 2 THEN CoerceRow2(row) ELSE CoerceRow1(row)

\* Fault variant of CoerceAll: rows without a shipment id are rejected.
CoerceAllWithIdOnly(rev, rows) ==
    SelectSeq([i \in DOMAIN rows |-> CoerceRow(rev, rows[i])],
              LAMBDA rec : rec.shipment_id # <<>>)

\* results.data.map(row => ({...})): one record per row, in row order.
CoerceAll(rev, rows) == [i \in DOMAIN rows |-> CoerceRow(rev, rows[i])]

\* Fault variant of SetData: the new records are appended to the old ones.
SetDataAppending(old, parsedData) == old \o parsedData

\* setData(parsedData): the new array replaces the state.
SetData(old, parsedData) == parsedData

-----------------------------------------------------------------------------
(* Errors *)

Err(name, message) == [name |-> name, message |-> message]

N_Error == <<"E","r","r","o","r">>

N_TypeError == <<"T","y","p","e","E","r","r","o","r">>

FailedToFetch == <<"F","a","i","l","e","d"," ","t","o"," ","f","e","t","c","h">>

CORS_ERROR == <<"C","O","R","S","_","E","R","R","O","R">>

HttpStatusPrefix == <<"H","T","T","P"," ","e","r","r","o","r","!"," ","s","t","a","t","u","s",":"," ">>

\* Fault variant of HttpError: the message leaves the status out.
HttpErrorWithoutStatus(status) == Err(N_Error, <<"H","T","T","P"," ","e","r","r","o","r","!">>)

\* new Error(`HTTP error! status: ${response.status}`)
HttpError(status) == Err(N_Error, HttpStatusPrefix \o ToDecimal(status))

PrivateSheetMessage ==
    <<"R","e","c","e","i","v","e","d"," ","H","T","M","L"," ","i","n","s","t","e","a","d"," ",
      "o","f"," ","C","S","V","."," ","T","h","e"," ","G","o","o","g","l","e"," ","S","h","e",
      "e","t"," ","m","i","g","h","t"," ","b","e"," ","p","r","i","v","a","t","e","."," ","P",
      "l","e","a","s","e"," ","p","u","b","l","i","s","h"," ","i","t"," ","t","o"," ","t","h",
      "e"," ","w","e","b"," ","(","F","i","l","e"," ",">"," ","S","h","a","r","e"," ",">"," ",
      "P","u","b","l","i","s","h"," ","t","o"," ","w","e","b",")",".">>

HtmlError == Err(N_Error, PrivateSheetMessage)

FailedToFetchData == <<"F","a","i","l","e","d"," ","t","o"," ","f","e","t","c","h"," ","d","a","t","a">>

FailedToParseData == <<"F","a","i","l","e","d"," ","t","o"," ","p","a","r","s","e"," ","d","a","t","a">>

FailedToParseCsvFile == <<"F","a","i","l","e","d"," ","t","o"," ","p","a","r","s","e"," ","C","S","V"," ","f","i",
                          "l","e">>

\* response.ok
ResponseOk(status) == status \in 200..299

\* Fault variant of IsHtml: the body is not lower-cased before the test.
IsHtmlCaseSensitive(csvText) ==
    \/ StartsWith(Trim(csvText), <<"<","!","d","o","c","t","y","p","e"," ","h","t","m","l",">">>)
    \/ StartsWith(Trim(csvText), <<"<","h","t","m","l">>)

\* The HTML sniff on the response body.
IsHtml(csvText) ==
    \/ StartsWith(ToLowerCase(Trim(csvText)), <<"<","!","d","o","c","t","y","p","e"," ","h","t","m","l",">">>)
    \/ StartsWith(ToLowerCase(Trim(csvText)), <<"<","h","t","m","l">>)

\* Fault variant of IsCorsError: both revisions compare the message only.
IsCorsErrorByMessage(rev, err) == err.message = FailedToFetch

\* The CORS test of the outer catch: revision 1 compares the message,
\* revision 2 searches it and also accepts any TypeError.
IsCorsError(rev, err) ==
    IF rev = 2
    THEN Includes(err.message, FailedToFetch) \/ err.name = N_TypeError
    ELSE err.message = FailedToFetch

\* The argument of setError in the outer catch of fetchData.
CatchError(rev, err) ==
    IF IsCorsError(rev, err) THEN CORS_ERROR
    ELSE OrDefault(err.message, FailedToFetchData)

\* The argument of setError in the catch of the complete callback.
CompleteCatchError(err) == OrDefault(err.message, FailedToParseData)

\* Fault variant of UploadCallbackError: the message is passed on with no
\* default.
UploadCallbackErrorWithoutDefault(err) == err.message

\* The argument of setError in the error callback of handleFileUpload.
UploadCallbackError(err) == OrDefault(err.message, FailedToParseCsvFile)

-----------------------------------------------------------------------------
(* App: which of its three returns renders, and what that view offers *)

\* Fault variant of View: the loader shows whenever loading is set.
ViewLoaderWheneverLoading(l, d, e) ==
    IF l THEN "loader"
    ELSE IF Truthy(e) /\ Len(d) = 0 THEN "failure"
    ELSE "dashboard"

View(l, d, e) ==
    IF l /\ Len(d) = 0 THEN "loader"
    ELSE IF Truthy(e) /\ Len(d) = 0 THEN "failure"
    ELSE "dashboard"

\* Fault variant of Offered: the failure view shows the file input under
\* every error.
OfferedUploadOnAnyFailure(l, d, e) ==
    IF View(l, d, e) = "failure" THEN {"upload", "retry"} ELSE {}

\* Fault variant of Offered: the Retry button also shows over a dashboard
\* whose last refresh failed.
OfferedOnStaleDashboard(l, d, e) ==
    IF View(l, d, e) = "failure"
    THEN (IF e = CORS_ERROR THEN {"upload", "retry"} ELSE {"retry"})
    ELSE IF Truthy(e) THEN {"retry"} ELSE {}

\* The ingestion entry points a view wires to a control: the failure view
\* has the Retry button (refetch) and, under CORS_ERROR only, the file input
\* (handleFileUpload); the loader and the dashboard pass neither on.
Offered(l, d, e) ==
    IF View(l, d, e) = "failure"
    THEN (IF e = CORS_ERROR THEN {"upload", "retry"} ELSE {"retry"})
    ELSE {}

-----------------------------------------------------------------------------
(* What the network and the user can supply *)

\* The canonical export: two rows, the second with an empty days_stuck.
CsvCanonical == <<"s","h","i","p","m","e","n","t","_","i","d",",","d","a","y","s","_","s","t","u","c","k",
                  "\n","A","1",",","7","\n","A","2",",","\n">>

\* The same table under human-readable headers.
CsvSpaced == <<"S","h","i","p","m","e","n","t"," ","I","D",",","D","a","y","s"," ","S","t","u","c","k",
               "\n","A","1",",","7","\n","A","2",",","\n">>

\* Edge cells: a negative number, Infinity, text, a blank line, a short row
\* and a row without shipment id; the status column carries the upstream
\* misspelling.
CsvEdge ==
    <<"s","h","i","p","m","e","n","t","_","i","d",",","l","a","t","e","s","t","_","s","t","a",
      "t","i","o","n","_","n","a","m","e",",","d","a","y","s","_","o","p","e","n","_","i","n",
      "_","s","t","a","t","i","o","n",",","d","a","y","s","_","o","p","e","n","_","s","i","n",
      "c","e","_","r","t","s",",","d","a","y","s","_","s","t","u","c","k",",","L","a","s","t",
      "e","s","t","_","S","P","X","_","S","t","a","t","u","s","\n","B","1",",","S","O","C",
      "1",",","-","3",",","I","n","f","i","n","i","t","y",",","a","b","c",",","D","E","L","I",
      "V","E","R","E","D","\n","\n","B","2",",",","," ","1","2"," ","\n",",","H","U","B","2",
      ",","4",",","5",",","6",",","\n">>

\* The export of a tab that holds its header line and no shipment.
CsvHeaderOnly == <<"s","h","i","p","m","e","n","t","_","i","d",",","d","a","y","s","_","s","t","u","c","k",
                   "\n">>

HtmlDoctypeUpper == <<"<","!","D","O","C","T","Y","P","E"," ","H","T","M","L",">","<","h","t","m","l",">","<",
                      "b","o","d","y",">","S","i","g","n"," ","i","n","<","/","b","o","d","y",">","<","/","h",
                      "t","m","l",">">>

HtmlDoctypeIndented == <<" ","\n","<","!","d","o","c","t","y","p","e"," ","h","t","m","l",">","\n","<","h","t",
                         "m","l",">">>

HtmlBare == <<"<","H","T","M","L"," ","l","a","n","g","=","\"","e","n","\"",">">>

CsvBodies == {CsvCanonical, CsvSpaced, CsvEdge}

\* Bodies that begin with the doctype marker once trimmed and lower-cased.
DoctypeBodies == {HtmlDoctypeUpper, HtmlDoctypeIndented}

\* response.text() of a response with an OK status.
Bodies == CsvBodies \cup {CsvHeaderOnly} \cup DoctypeBodies \cup {HtmlBare}

\* The text of a file the user picks.
FileContents == CsvBodies

\* response.status
Statuses == {200, 404, 500}

\* What fetch() rejects with: the TypeError of each browser family, one with
\* no message, and rejections that are no TypeError (a wrapped fetch).
FetchRejections ==
    { Err(N_TypeError, FailedToFetch),
      Err(N_TypeError, <<"L","o","a","d"," ","f","a","i","l","e","d">>),
      Err(N_TypeError, <<>>),
      Err(N_Error, <<>>),
      Err(N_Error, <<"R","e","q","u","e","s","t"," ","a","b","o","r","t","e","d",":"," ","F","a","i","l","e",
                     "d"," ","t","o"," ","f","e","t","c","h">>) }

\* What response.text() rejects with when the body stream breaks.
TextRejections == { Err(N_TypeError, <<"n","e","t","w","o","r","k"," ","e","r","r","o","r">>) }

\* What the mapping callback could throw were results.data to hold a
\* non-object; Papa never produces one, the callback guards against it.
CoercionThrows ==
    { Err(N_TypeError, <<"C","a","n","n","o","t"," ","r","e","a","d"," ","p","r","o","p","e","r","t","i","e","s",
                         " ","o","f"," ","n","u","l","l"," ","(","r","e","a","d","i","n","g"," ","'","s","h","i",
                         "p","m","e","n","t","_","i","d","'",")">>),
      Err(N_Error, <<>>) }

\* What Papa hands the error callback when the file cannot be read.
FileReadErrors ==
    { Err(<<"N","o","t","R","e","a","d","a","b","l","e","E","r","r","o","r">>, <<"T","h","e"," ","f","i","l","e"," ","c","o","u","l","d"," ","n","o","t"," ","b","e"," ",
                                  "r","e","a","d">>),
      Err(N_Error, <<>>) }

\* Every text the model hands to the HTML sniff or to the parser.
InputTexts == Bodies \cup FileContents

\* parsedData of the complete callback inside fetchData.
ParseFetched(rev, csvText) == CoerceAll(rev, PapaParse(rev, csvText))

\* Fault variant of ParseUpload: the upload path passes no transformHeader.
ParseUploadRawHeaders(rev, content) == CoerceAll(rev, PapaParse(1, content))

\* parsedData of the complete callback inside handleFileUpload: the same
\* parser configuration and the same object literal, written out a second
\* time.
ParseUpload(rev, content) == CoerceAll(rev, PapaParse(rev, content))

\* The sniff and the parse-and-coerce result of every input text, per
\* revision and per path, computed once by the operators above.
Ingested ==
    [rev \in {1, 2} |->
        [text \in InputTexts |->
            [html       |-> IsHtml(text),
             parsedData |-> ParseFetched(rev, text),
             uploaded   |-> ParseUpload(rev, text)]]]

-----------------------------------------------------------------------------
(* The state of the presentation *)

\* useState of Operacional: every filter on All.
NoFilters ==
    [latest_station_name |-> <<>>, responsability |-> <<>>,
     stuck_aging |-> <<>>, since_drop_aging |-> <<>>]

\* The state App and a freshly mounted page start with: activeTab, then
\* filters, sortConfig, activeKpi and page of Operacional with the values
\* its two memos hold (over no data), showAllSpxStatus of Executiva,
\* selectedStations of Relatorio.
UiInit(tab) ==
    [activeTab        |-> tab,
     filters          |-> NoFilters,
     sortConfig       |-> [key |-> "null", direction |-> "null"],
     activeKpi        |-> "null",
     page             |-> 1,
     filteredData     |-> <<>>,
     tableData        |-> <<>>,
     showAllSpxStatus |-> FALSE,
     selectedStations |-> <<>>]

-----------------------------------------------------------------------------
(* State *)

NoErr == Err(<<>>, <<>>)

\* last when the step just taken completed no ingestion.
NoLast ==
    [cause |-> "none", kind |-> "none", status |-> 0, bodyRead |-> FALSE,
     body |-> <<>>, parsed |-> FALSE, thrown |-> NoErr,
     before |-> <<>>, start |-> <<>>, overtaken |-> FALSE]

\* One ingestion in flight: which entry point started it, the await it is
\* suspended at, and (history) the data it started from and whether another
\* ingestion has succeeded since.
Ingestion(kind, pc, start) ==
    [kind |-> kind, pc |-> pc, start |-> start, overtaken |-> FALSE]

Init ==
    /\ revision \in {1, 2}
    /\ phase = "constructed"
    /\ data = <<>>
    /\ loading = TRUE
    /\ error = Null
    /\ inflight = EmptyBag
    /\ last = NoLast
    /\ hist = <<>>
    /\ trigger = "none"
    /\ arg = <<>>
    /\ res = <<>>
    /\ ui = UiInit("operacional")

HasRoom == BagCardinality(inflight) < MaxInflight

Pending(kind, pc) == {r \in BagToSet(inflight) : r.kind = kind /\ r.pc = pc}

Without(r) == inflight (-) SetToBag({r})

\* History only: every ingestion still in flight has seen a success.
MarkOvertaken(b) ==
    LET marked == {[r EXCEPT !.overtaken = TRUE] : r \in BagToSet(b)}
    IN  [m \in marked |->
            CopiesIn(m, b) + CopiesIn([m EXCEPT !.overtaken = FALSE], b)]

\* The two most recent entries of the success history.
Last2(h) == IF Len(h) > 2 THEN SubSeq(h, Len(h) - 1, Len(h)) ELSE h

-----------------------------------------------------------------------------
(* fetchData *)

\* Fault variant of StartFetch: the requests in flight are aborted first.
StartFetchCancelling ==
    /\ loading' = TRUE
    /\ error' = Null
    /\ inflight' = SetToBag({Ingestion("fetch", "fetch", data)})
    /\ last' = NoLast
    /\ UNCHANGED <<arg, res, ui, revision, data, hist>>

\* Fault variant of StartFetch: the request is issued without setLoading.
StartFetchWithoutLoading ==
    /\ error' = Null
    /\ inflight' = inflight (+) SetToBag({Ingestion("fetch", "fetch", data)})
    /\ last' = NoLast
    /\ UNCHANGED <<arg, res, ui, revision, data, hist, loading>>

\* Lines 26-29: setLoading(true); setError(null); fetch(CSV_URL) is issued.
StartFetch ==
    /\ loading' = TRUE
    /\ error' = Null
    /\ inflight' = inflight (+) SetToBag({Ingestion("fetch", "fetch", data)})
    /\ last' = NoLast
    /\ UNCHANGED <<arg, res, ui, revision, data, hist>>

\* Fault variant of CatchInFetchData: the catch also clears the dataset.
CatchInFetchDataClearing(r, cause, status, bodyRead, body, err) ==
    /\ error' = CatchError(revision, err)
    /\ loading' = FALSE
    /\ data' = <<>>
    /\ inflight' = Without(r)
    /\ last' = [cause |-> cause, kind |-> "fetch", status |-> status,
                bodyRead |-> bodyRead, body |-> body, parsed |-> FALSE,
                thrown |-> err, before |-> data, start |-> r.start,
                overtaken |-> r.overtaken]
    /\ trigger' = "none"
    /\ UNCHANGED <<arg, res, ui, revision, phase, hist>>

\* The outer catch: setError(classified); setLoading(false).
CatchInFetchData(r, cause, status, bodyRead, body, err) ==
    /\ error' = CatchError(revision, err)
    /\ loading' = FALSE
    /\ inflight' = Without(r)
    /\ last' = [cause |-> cause, kind |-> "fetch", status |-> status,
                bodyRead |-> bodyRead, body |-> body, parsed |-> FALSE,
                thrown |-> err, before |-> data, start |-> r.start,
                overtaken |-> r.overtaken]
    /\ trigger' = "none"
    /\ UNCHANGED <<arg, res, ui, revision, phase, data, hist>>

\* Fault variant of CompleteOk: the success path also calls setError(null).
CompleteOkClearingError(r, status, body) ==
    LET parsedData == IF r.kind = "upload"
                      THEN Ingested[revision][body].uploaded
                      ELSE Ingested[revision][body].parsedData
    IN  /\ data' = SetData(data, parsedData)
        /\ loading' = FALSE
        /\ inflight' = MarkOvertaken(Without(r))
        /\ last' = [cause |-> "ok", kind |-> r.kind, status |-> status,
                    bodyRead |-> TRUE, body |-> body, parsed |-> TRUE,
                    thrown |-> NoErr, before |-> data, start |-> r.start,
                    overtaken |-> r.overtaken]
        /\ hist' = Last2(Append(hist, parsedData))
        /\ trigger' = "none"
        /\ error' = Null
        /\ UNCHANGED <<arg, res, ui, revision, phase>>

\* The complete callback, mapping succeeded: setData(parsedData) and, in
\* finally, setLoading(false).  error is not touched.
CompleteOk(r, status, body) ==
    LET parsedData == IF r.kind = "upload"
                      THEN Ingested[revision][body].uploaded
                      ELSE Ingested[revision][body].parsedData
    IN  /\ data' = SetData(data, parsedData)
        /\ loading' = FALSE
        /\ inflight' = MarkOvertaken(Without(r))
        /\ last' = [cause |-> "ok", kind |-> r.kind, status |-> status,
                    bodyRead |-> TRUE, body |-> body, parsed |-> TRUE,
                    thrown |-> NoErr, before |-> data, start |-> r.start,
                    overtaken |-> r.overtaken]
        /\ hist' = Last2(Append(hist, parsedData))
        /\ trigger' = "none"
        /\ UNCHANGED <<arg, res, ui, revision, phase, error>>

\* The complete callback, mapping threw: setError in its catch and, in
\* finally, setLoading(false).
CompleteThrows(r, status, body, err) ==
    /\ error' = CompleteCatchError(err)
    /\ loading' = FALSE
    /\ inflight' = Without(r)
    /\ last' = [cause |-> "coerce", kind |-> r.kind, status |-> status,
                bodyRead |-> TRUE, body |-> body, parsed |-> TRUE,
                thrown |-> err, before |-> data, start |-> r.start,
                overtaken |-> r.overtaken]
    /\ trigger' = "none"
    /\ UNCHANGED <<arg, res, ui, revision, phase, data, hist>>

\* useEffect: fetchData() on mount, then setInterval(fetchData, 5 min).
Mount ==
    /\ phase = "constructed"
    /\ phase' = "mounted"
    /\ trigger' = "mount"
    /\ StartFetch

\* The effect's cleanup: clearInterval(interval).  Nothing else is undone:
\* requests in flight are not cancelled and their continuations still run.
Unmount ==
    /\ phase = "mounted"
    /\ phase' = "unmounted"
    /\ last' = NoLast
    /\ trigger' = "none"
    /\ UNCHANGED <<arg, res, ui, revision, data, loading, error, inflight, hist>>

\* Fault variant of TimerTick: the cleanup does not clear the interval.
TimerTickNeverCleared ==
    /\ phase \in {"mounted", "unmounted"}
    /\ HasRoom
    /\ trigger' = "timer"
    /\ StartFetch
    /\ UNCHANGED phase

\* Fault variant of TimerTick: the interval callback does nothing while an
\* error is shown.
TimerTickUnlessFailed ==
    /\ phase = "mounted"
    /\ error = Null
    /\ HasRoom
    /\ trigger' = "timer"
    /\ StartFetch
    /\ UNCHANGED phase

\* The interval fires: fetchData(), whatever the state.
TimerTick ==
    /\ phase = "mounted"
    /\ HasRoom
    /\ trigger' = "timer"
    /\ StartFetch
    /\ UNCHANGED phase

\* The Retry Connection button: onClick={refetch}.
Refetch ==
    /\ phase = "mounted"
    /\ "retry" \in Offered(loading, data, error)
    /\ HasRoom
    /\ trigger' = "retry"
    /\ StartFetch
    /\ UNCHANGED phase

\* await fetch(CSV_URL) rejects.
FetchRejected ==
    \E r \in Pending("fetch", "fetch") : \E err \in FetchRejections :
        CatchInFetchData(r, "reject", 0, FALSE, <<>>, err)

\* await fetch(CSV_URL) resolves: a status that is not OK throws the HTTP
\* error into the outer catch, an OK status goes on to response.text().
FetchResponded ==
    \E r \in Pending("fetch", "fetch") : \E status \in Statuses :
        IF ~ResponseOk(status)
        THEN CatchInFetchData(r, "http", status, FALSE, <<>>, HttpError(status))
        ELSE /\ inflight' = Without(r) (+) SetToBag({[r EXCEPT !.pc = "text"]})
             /\ last' = NoLast
             /\ trigger' = "none"
             /\ UNCHANGED <<arg, res, ui, revision, phase, data, loading, error, hist>>

\* await response.text() rejects.
TextRejected ==
    \E r \in Pending("fetch", "text") : \E err \in TextRejections :
        CatchInFetchData(r, "text", 200, FALSE, <<>>, err)

\* await response.text() resolves: an HTML body throws into the outer catch,
\* anything else is parsed synchronously and the complete callback runs.
TextResolved ==
    \E r \in Pending("fetch", "text") : \E csvText \in Bodies :
        IF Ingested[revision][csvText].html
        THEN CatchInFetchData(r, "html", 200, TRUE, csvText, HtmlError)
        ELSE \/ CompleteOk(r, 200, csvText)
             \/ \E err \in CoercionThrows : CompleteThrows(r, 200, csvText, err)

-----------------------------------------------------------------------------
(* handleFileUpload *)

\* Fault variant of HandleFileUpload: the parse starts without setLoading.
HandleFileUploadWithoutLoading ==
    /\ phase = "mounted"
    /\ "upload" \in Offered(loading, data, error)
    /\ HasRoom
    /\ error' = Null
    /\ inflight' = inflight (+) SetToBag({Ingestion("upload", "parse", data)})
    /\ last' = NoLast
    /\ trigger' = "upload"
    /\ UNCHANGED <<arg, res, ui, revision, phase, data, hist, loading>>

\* onFileChange with a file chosen: setLoading(true); setError(null);
\* Papa.parse(file, ...) starts reading.  The file input exists only in the
\* failure view under CORS_ERROR.
HandleFileUpload ==
    /\ phase = "mounted"
    /\ "upload" \in Offered(loading, data, error)
    /\ HasRoom
    /\ loading' = TRUE
    /\ error' = Null
    /\ inflight' = inflight (+) SetToBag({Ingestion("upload", "parse", data)})
    /\ last' = NoLast
    /\ trigger' = "upload"
    /\ UNCHANGED <<arg, res, ui, revision, phase, data, hist>>

\* The file is read and parsed: the complete callback runs.
UploadComplete ==
    \E r \in Pending("upload", "parse") : \E content \in FileContents :
        \/ CompleteOk(r, 0, content)
        \/ \E err \in CoercionThrows : CompleteThrows(r, 0, content, err)

\* The file cannot be read: the error callback runs.
UploadError ==
    \E r \in Pending("upload", "parse") : \E err \in FileReadErrors :
        /\ error' = UploadCallbackError(err)
        /\ loading' = FALSE
        /\ inflight' = Without(r)
        /\ last' = [cause |-> "parseError", kind |-> "upload", status |-> 0,
                    bodyRead |-> FALSE, body |-> <<>>, parsed |-> TRUE,
                    thrown |-> err, before |-> data, start |-> r.start,
                    overtaken |-> r.overtaken]
        /\ trigger' = "none"
        /\ UNCHANGED <<arg, res, ui, revision, phase, data, hist>>

-----------------------------------------------------------------------------

Next ==
    \/ Mount
    \/ Unmount
    \/ TimerTick
    \/ Refetch
    \/ HandleFileUpload
    \/ FetchRejected
    \/ FetchResponded
    \/ TextRejected
    \/ TextResolved
    \/ UploadComplete
    \/ UploadError

Spec == Init /\ [][Next]_vars

-----------------------------------------------------------------------------
(* transformHeader applied on its own *)

\* Header tokens are drawn from letters of both cases, blanks and underscores.
HeaderAlphabet == {"i", "D", " ", "\t", "_"}

MaxHeaderLen == 5

Headers == UNION {[1..n -> HeaderAlphabet] : n \in 0..MaxHeaderLen}

\* The hook as constructed, with nothing started.
HookIdle ==
    /\ revision = 2
    /\ phase = "constructed"
    /\ data = <<>>
    /\ loading = TRUE
    /\ error = Null
    /\ inflight = EmptyBag
    /\ last = NoLast
    /\ hist = <<>>
    /\ trigger = "none"
    /\ ui = UiInit("operacional")

InitHeader ==
    /\ HookIdle
    /\ arg \in Headers
    /\ res = <<>>

\* Papa hands a header token to transformHeader.
TransformHeader ==
    /\ res = <<>>
    /\ res' = <<transformHeader(arg)>>
    /\ UNCHANGED <<hookVars, arg, ui>>

\* The normalized token is a header token again (the sheet is exported
\* under the names the dashboard shows) and is handed to transformHeader.
TransformHeaderAgain ==
    /\ Len(res) = 1
    /\ res' = Append(res, transformHeader(res[1]))
    /\ UNCHANGED <<hookVars, arg, ui>>

NextHeader == TransformHeader \/ TransformHeaderAgain

SpecHeader == InitHeader /\ [][NextHeader]_vars

-----------------------------------------------------------------------------
(* extractSpxStatus applied on its own *)

\* Column names a row can carry: the three exact keys, the upstream
\* spelling as exported, a bare status column, a near miss of spx_status, a
\* column that only mentions spx, and an unrelated column.
RowKeys ==
    { K_lastest_spx_status, K_latest_spx_status, K_spx_status,
      <<"L","a","s","t","e","s","t","_","S","P","X","_","S","t","a","t","u","s">>, <<"s","t","a","t","u","s">>, <<"s","p","x","_","s","t","a","t","u","s","_","_","1">>, <<"s","p","x","_","c","o","d","e">>,
      K_shipment_id }

MaxRowKeys == 3

\* The cell of the j-th column when it is not empty.
CellAt(j) == <<"v", Digits[j + 1]>>

\* The row of columns ks, in that order, the j-th cell filled when fs[j].
RowWith(ks, fs) ==
    [j \in DOMAIN ks |-> [k |-> ks[j], v |-> IF fs[j] THEN CellAt(j) ELSE <<>>]]

\* Rows of at most MaxRowKeys distinct columns, in any order, each cell
\* empty or filled.
InitRows ==
    /\ HookIdle
    /\ \E n \in 0..MaxRowKeys :
          \E ks \in [1..n -> RowKeys] : \E fs \in [1..n -> BOOLEAN] :
              /\ \A a, b \in 1..n : a # b => ks[a] # ks[b]
              /\ arg = RowWith(ks, fs)
    /\ res = <<>>

\* The mapping callback evaluates extractSpxStatus(row).
ExtractSpxStatus ==
    /\ res = <<>>
    /\ res' = <<extractSpxStatus(arg)>>
    /\ UNCHANGED <<hookVars, arg, ui>>

NextRows == ExtractSpxStatus

SpecRows == InitRows /\ [][NextRows]_vars

-----------------------------------------------------------------------------
(* Presentation: the pages App renders from data *)

\* Three shipments of two stations, in no particular order.
CsvStations ==
    <<"s","h","i","p","m","e","n","t","_","i","d",",","l","a","t","e","s","t","_","s","t","a",
      "t","i","o","n","_","n","a","m","e",",","r","e","s","p","o","n","s","a","b","i","l","i",
      "t","y",",","d","a","y","s","_","o","p","e","n","_","i","n","_","s","t","a","t","i","o",
      "n",",","d","a","y","s","_","o","p","e","n","_","s","i","n","c","e","_","r","t","s",",",
      "d","a","y","s","_","s","t","u","c","k",",","s","t","u","c","k","_","a","g","i","n","g",
      "\n","S","3",",","H","U","B","2",",","C","a","r","r","i","e","r",",","4",",","2","5",
      ",","9",",","B","\n","S","1",",","S","O","C","1",",","O","p","s",",","1",",","3",",",
      "0",",","A","\n","S","2",",","S","O","C","1",",","C","a","r","r","i","e","r",",","8",
      ",","1","2",",","6",",","B","\n">>

\* Twenty-six shipments, one more than a page of the table holds.
CsvPaged ==
    <<"s","h","i","p","m","e","n","t","_","i","d",",","l","a","t","e","s","t","_","s","t","a",
      "t","i","o","n","_","n","a","m","e",",","d","a","y","s","_","s","t","u","c","k","\n",
      "P","2","6",",","S","O","C","1",",","7","\n","P","2","5",",","H","U","B","2",",","3",
      "\n","P","2","4",",","S","O","C","1",",","1","0","\n","P","2","3",",","H","U","B","2",
      ",","6","\n","P","2","2",",","S","O","C","1",",","2","\n","P","2","1",",","H","U","B",
      "2",",","9","\n","P","2","0",",","S","O","C","1",",","5","\n","P","1","9",",","H","U",
      "B","2",",","1","\n","P","1","8",",","S","O","C","1",",","8","\n","P","1","7",",","H",
      "U","B","2",",","4","\n","P","1","6",",","S","O","C","1",",","0","\n","P","1","5",",",
      "H","U","B","2",",","7","\n","P","1","4",",","S","O","C","1",",","3","\n","P","1","3",
      ",","H","U","B","2",",","1","0","\n","P","1","2",",","S","O","C","1",",","6","\n","P",
      "1","1",",","H","U","B","2",",","2","\n","P","1","0",",","S","O","C","1",",","9","\n",
      "P","0","9",",","H","U","B","2",",","5","\n","P","0","8",",","S","O","C","1",",","1",
      "\n","P","0","7",",","H","U","B","2",",","8","\n","P","0","6",",","S","O","C","1",",",
      "4","\n","P","0","5",",","H","U","B","2",",","0","\n","P","0","4",",","S","O","C","1",
      ",","7","\n","P","0","3",",","H","U","B","2",",","3","\n","P","0","2",",","S","O","C",
      "1",",","1","0","\n","P","0","1",",","H","U","B","2",",","6","\n">>

\* A later export: one station gone, one new, one name typed in lower case
\* between blanks.
CsvMoved ==
    <<"s","h","i","p","m","e","n","t","_","i","d",",","l","a","t","e","s","t","_","s","t","a",
      "t","i","o","n","_","n","a","m","e",",","d","a","y","s","_","s","t","u","c","k","\n",
      "M","1",",","S","O","C","1",",","2","\n","M","2",",","X","P","T","7",",","8","\n","M",
      "3",","," ","s","o","c","9"," ",",","1","\n">>

\* The datasets a dashboard is shown over: what revision 2 ingests from the
\* tables above.  All their numbers are finite.
ViewData ==
    {ParseFetched(2, CsvStations), ParseFetched(2, CsvPaged), ParseFetched(2, CsvMoved)}

\* The printable characters in code-unit order (the quote, the backslash
\* and the backtick, which no cell of the model holds, left out).
AsciiPrintable ==
    <<" ","!","#","$","%","&","'","(",")","*","+",",","-",".","/","0","1","2","3","4","5","6",
      "7","8","9",":",";","<","=",">","?","@","A","B","C","D","E","F","G","H","I","J","K","L",
      "M","N","O","P","Q","R","S","T","U","V","W","X","Y","Z","[","]","^","_","a","b","c","d",
      "e","f","g","h","i","j","k","l","m","n","o","p","q","r","s","t","u","v","w","x","y","z",
      "{","|","}","~">>

\* The rank of a character in code-unit order.
CodeUnit ==
    [c \in Range(AsciiPrintable) |->
        CHOOSE i \in DOMAIN AsciiPrintable : AsciiPrintable[i] = c]

\* a < b on strings: the first differing code unit decides, a proper prefix
\* is smaller.
RECURSIVE StrLess(_, _)
StrLess(a, b) ==
    IF b = <<>> THEN FALSE
    ELSE IF a = <<>> THEN TRUE
    ELSE IF Head(a) = Head(b) THEN StrLess(Tail(a), Tail(b))
    ELSE CodeUnit[Head(a)] < CodeUnit[Head(b)]

\* a < b on numbers; every comparison with NaN is false.
NumLess(a, b) ==
    CASE a.k = "nan" \/ b.k = "nan" -> FALSE
      [] a.k = "fin" /\ b.k = "fin" -> a.v < b.v
      [] a.k = "inf" /\ b.k = "fin" -> a.v < 0
      [] a.k = "fin" /\ b.k = "inf" -> b.v > 0
      [] OTHER -> a.v < b.v

\* aValue < bValue for the values of one column.
ValueLess(key, a, b) ==
    IF key \in {"days_open_in_station", "days_open_since_rts", "days_stuck"}
    THEN NumLess(a, b)
    ELSE StrLess(a, b)

\* The comparator of handleSort's order returns a negative number for (a, b).
Precedes(a, b, key, direction) ==
    IF direction = "asc" THEN ValueLess(key, a[key], b[key])
    ELSE ValueLess(key, b[key], a[key])

\* Array.prototype.sort with that comparator: a stable sort.
RECURSIVE SortRows(_, _, _)
SortRows(rows, key, direction) ==
    IF rows = <<>> THEN <<>>
    ELSE LET init  == SortRows(SubSeq(rows, 1, Len(rows) - 1), key, direction)
             x     == rows[Len(rows)]
             after == {i \in DOMAIN init : Precedes(x, init[i], key, direction)}
             pos   == IF after = {} THEN Len(init) + 1
                      ELSE CHOOSE i \in after : \A j \in after : i <= j
         IN  SubSeq(init, 1, pos - 1) \o <<x>> \o SubSeq(init, pos, Len(init))

FilterFields ==
    {"latest_station_name", "responsability", "stuck_aging", "since_drop_aging"}

\* The columns whose header cell calls handleSort.
SortKeys ==
    {"shipment_id", "latest_station_name", "responsability",
     "days_open_in_station", "days_open_since_rts", "days_stuck", "stuck_aging"}

KpiCards == {"ALL", "AVG_STATION", "STUCK_5", "CRITICAL_20"}

Tabs == {"operacional", "executiva", "relatorio"}

\* The predicate of data.filter in Operacional.
Matches(item, filters) ==
    \A f \in FilterFields : filters[f] = <<>> \/ item[f] = filters[f]

Sorting(sortConfig) == sortConfig.key # "null" /\ sortConfig.direction # "null"

\* filteredData of Operacional: data.filter builds a new array; when a sort
\* is configured, that array is copied ([...result]) and the copy is sorted.
OperacionalFilteredData(d, filters, sortConfig) ==
    LET result == SelectSeq(d, LAMBDA item : Matches(item, filters))
    IN  IF Sorting(sortConfig)
        THEN SortRows(result, sortConfig.key, sortConfig.direction)
        ELSE result

RECURSIVE SumOf(_, _)
SumOf(rows, key) ==
    IF rows = <<>> THEN 0 ELSE rows[1][key].v + SumOf(Tail(rows), key)

\* d.days_open_in_station > avgDaysStationNum, the average being the sum
\* over filteredData divided by its length (finite values).
AboveAverage(item, rows) ==
    item.days_open_in_station.v * Len(rows) > SumOf(rows, "days_open_in_station")

\* The filter a KPI card applies to filteredData.
KpiKeeps(item, rows, activeKpi) ==
    CASE activeKpi = "AVG_STATION" -> AboveAverage(item, rows)
      [] activeKpi = "STUCK_5"     -> NumLess(Fin(5), item.days_stuck)
      [] activeKpi = "CRITICAL_20" -> NumLess(Fin(20), item.days_open_since_rts)
      [] OTHER -> TRUE

\* tableData of Operacional.
TableData(d, u) ==
    LET filteredData == OperacionalFilteredData(d, u.filters, u.sortConfig)
    IN  SelectSeq(filteredData, LAMBDA item : KpiKeeps(item, filteredData, u.activeKpi))

\* Fault variant of FilteredDataDeps: data is missing from the list.
FilteredDataDepsWithoutData == {"filters", "sortConfig"}

\* The dependency list of the filteredData memo.
FilteredDataDeps == {"data", "filters", "sortConfig"}

\* The two memos after a render over data prop d with state u, when the
\* values named in changed have a new identity since the render before:
\* filteredData is recomputed when one of its dependencies changed,
\* tableData when filteredData (hence avgDaysStationNum) or activeKpi did.
Memoized(d, u, changed) ==
    LET stale == changed \cap FilteredDataDeps # {}
        filteredData ==
            IF stale THEN OperacionalFilteredData(d, u.filters, u.sortConfig)
            ELSE u.filteredData
    IN  [u EXCEPT
            !.filteredData = filteredData,
            !.tableData =
                IF stale \/ "activeKpi" \in changed
                THEN SelectSeq(filteredData,
                         LAMBDA item : KpiKeeps(item, filteredData, u.activeKpi))
                ELSE u.tableData]

\* tableData.length
TableLength(d, u) == Len(u.tableData)

RowsPerPage == 25

\* Math.ceil(tableData.length / rowsPerPage)
TotalPages(d, u) == (TableLength(d, u) + RowsPerPage - 1) \div RowsPerPage

\* The options of a filter's Select: All, then the distinct non-empty values
\* of the column.
FilterOptions(d, f) == {<<>>} \cup {d[i][f] : i \in DOMAIN d}

\* The stations Relatorio lists: the trimmed non-empty station names.
StationNames(d) ==
    {Trim(d[i].latest_station_name) : i \in {j \in DOMAIN d : d[j].latest_station_name # <<>>}}

\* name.match(/^([A-Za-z]+)/): the letters the name begins with.
RECURSIVE LeadingLetters(_)
LeadingLetters(name) ==
    IF name # <<>> /\ Head(name) \in Range(UpperLetters) \cup Range(LowerLetters)
    THEN <<Head(name)>> \o LeadingLetters(Tail(name))
    ELSE <<>>

\* The group of a station: its leading letters in upper case when there
\* are at least two, OUTROS otherwise.
GroupName(name) ==
    LET toUpperCase(c) ==
            LET at == {i \in DOMAIN LowerLetters : LowerLetters[i] = c}
            IN  IF at = {} THEN c ELSE UpperLetters[CHOOSE i \in at : TRUE]
        match == LeadingLetters(name)
        type  == [i \in DOMAIN match |-> toUpperCase(match[i])]
    IN  IF Len(type) > 1 THEN type ELSE <<"O","U","T","R","O","S">>

\* stationGroups of Relatorio: the stations of the current data by group
\* (each group's array holds a station once; its order is given by
\* SortedNames where it matters).
StationGroups(d) ==
    [g \in {GroupName(s) : s \in StationNames(d)} |->
        {s \in StationNames(d) : GroupName(s) = g}]

\* A set of names as the array sort() gives: ascending code units.
RECURSIVE SortedNames(_)
SortedNames(S) ==
    IF S = {} THEN <<>>
    ELSE LET least == CHOOSE s \in S : \A o \in S \ {s} : StrLess(s, o)
         IN  <<least>> \o SortedNames(S \ {least})

\* What the search box can hold.
SearchQueries == {<<>>, <<"s","o","c">>, <<"1">>, <<"z","z">>}

\* stationsToRender of a group in the dropdown under a search query, and
\* the empty set when the group is not rendered.
StationsToRender(groupName, stations, searchQuery) ==
    LET q == ToLowerCase(searchQuery)
        filteredGroupStations == {s \in stations : Includes(ToLowerCase(s), q)}
        groupMatchesSearch == Includes(ToLowerCase(groupName), q)
    IN  IF groupMatchesSearch /\ filteredGroupStations = {} THEN stations
        ELSE filteredGroupStations

\* Fault variant of DisplayTags: only fully selected groups get a tag.
DisplayTagsGroupsOnly(groups, selectedStations) ==
    {[id |-> g, isGroup |-> TRUE] :
        g \in {h \in DOMAIN groups : groups[h] \subseteq Range(selectedStations)}}

\* displayTags of Relatorio: per group, the Todos tag when every station of
\* the group is selected, else one tag per selected station of the group.
DisplayTags(groups, selectedStations) ==
    UNION {IF groups[g] \subseteq Range(selectedStations) /\ groups[g] # {}
           THEN {[id |-> g, isGroup |-> TRUE]}
           ELSE {[id |-> s, isGroup |-> FALSE] :
                    s \in groups[g] \cap Range(selectedStations)}
           : g \in DOMAIN groups}

\* filteredData of Relatorio: data itself while no station is selected, a
\* new array otherwise.
RelatorioFilteredData(d, selectedStations) ==
    IF selectedStations = <<>> THEN d
    ELSE SelectSeq(d, LAMBDA item :
            Trim(item.latest_station_name) \in Range(selectedStations))

\* Fault variant of SortReceiver: the comparator sort is called on the prop.
SortReceiverIsProp == "data"

\* The array the comparator sort of Operacional is called on: the spread
\* copy of the filter's result.  Array.prototype.sort orders its receiver in
\* place.
SortReceiver == "copy"

\* The content of the data array after Operacional rendered with state u.
\* The render calls sort on SortReceiver and nothing else that writes.
PropAfterOperacional(d, u) ==
    IF Sorting(u.sortConfig) /\ SortReceiver = "data"
    THEN SortRows(d, u.sortConfig.key, u.sortConfig.direction)
    ELSE d

\* The hook some time after a successful ingestion of d.
HookReady(d) ==
    /\ revision = 2
    /\ phase = "mounted"
    /\ data = d
    /\ loading = FALSE
    /\ error = Null
    /\ inflight = EmptyBag
    /\ last = NoLast
    /\ hist = <<d>>
    /\ trigger = "none"

\* A page mounts over data prop d: every memo is computed.
Mounted(d, tab) ==
    IF tab = "operacional"
    THEN Memoized(d, UiInit(tab), {"data", "filters", "sortConfig", "activeKpi"})
    ELSE UiInit(tab)

InitViews ==
    /\ \E d \in ViewData : HookReady(d)
    /\ arg = <<>>
    /\ res = <<>>
    /\ ui = Mounted(data, "operacional")

\* What no step of the presentation touches.
hookAround == <<revision, phase, loading, error, inflight, last, hist, trigger, arg, res>>

\* Fault variant of Rendered: no effect resets the page (the earlier
\* version of the page, lines 482-485).
RenderedWithoutPageReset(d, u, changed) == Memoized(d, u, changed)

\* The state of Operacional after it re-rendered over data prop d with
\* state u: the memos are brought up to date and the effect on
\* [tableData.length] resets the page when the length changed.
Rendered(d, u, changed) ==
    LET m == Memoized(d, u, changed)
    IN  IF TableLength(d, m) # TableLength(d, ui) THEN [m EXCEPT !.page = 1] ELSE m

\* Operacional re-renders with state u, and the render leaves the data
\* array as PropAfterOperacional says.
OperacionalRenders(u, changed) ==
    /\ ui' = Rendered(data, u, changed)
    /\ data' = PropAfterOperacional(data, u)
    /\ UNCHANGED hookAround

\* The sidebar: setActiveTab(item.id).  The page shown before unmounts and
\* the new one mounts with its initial state.
SetActiveTab ==
    \E tab \in Tabs \ {ui.activeTab} :
        /\ ui' = Mounted(data, tab)
        /\ data' = IF tab = "operacional"
                   THEN PropAfterOperacional(data, UiInit(tab)) ELSE data
        /\ UNCHANGED hookAround

\* A filter's Select changes: setFilters({...filters, [f]: value}).
SetFilter ==
    /\ ui.activeTab = "operacional"
    /\ \E f \in FilterFields : \E value \in FilterOptions(data, f) :
          OperacionalRenders([ui EXCEPT !.filters[f] = value], {"filters"})

\* Fault variant of handleSort: the key is kept when the direction falls
\* back to null.
handleSortKeepingKey(sortConfig, key) ==
    LET direction ==
            IF sortConfig.key = key /\ sortConfig.direction = "asc"
            THEN "desc"
            ELSE IF sortConfig.key = key /\ sortConfig.direction = "desc"
            THEN "null"
            ELSE "asc"
    IN  [key |-> key, direction |-> direction]

\* handleSort(key): the argument of setSortConfig.  null is "null".
handleSort(sortConfig, key) ==
    LET direction ==
            IF sortConfig.key = key /\ sortConfig.direction = "asc"
            THEN "desc"
            ELSE IF sortConfig.key = key /\ sortConfig.direction = "desc"
            THEN "null"
            ELSE "asc"
    IN  [key |-> IF direction # "null" THEN key ELSE "null",
         direction |-> direction]

\* A header cell is clicked.
HandleSort ==
    /\ ui.activeTab = "operacional"
    /\ \E key \in SortKeys :
          OperacionalRenders(
              [ui EXCEPT !.sortConfig = handleSort(ui.sortConfig, key)],
              {"sortConfig"})

\* A KPI card is clicked: setActiveKpi(activeKpi === k ? null : k).
ToggleKpi ==
    /\ ui.activeTab = "operacional"
    /\ \E k \in KpiCards :
          OperacionalRenders(
              [ui EXCEPT !.activeKpi = IF ui.activeKpi = k THEN "null" ELSE k],
              {"activeKpi"})

\* The clear button of the table card: setActiveKpi(null).
ClearKpi ==
    /\ ui.activeTab = "operacional"
    /\ ui.activeKpi # "null"
    /\ OperacionalRenders([ui EXCEPT !.activeKpi = "null"], {"activeKpi"})

\* The Previous button, rendered when totalPages > 1 and enabled unless
\* page === 1: setPage(p => Math.max(1, p - 1)).
PrevPage ==
    /\ ui.activeTab = "operacional"
    /\ TotalPages(data, ui) > 1
    /\ ui.page # 1
    /\ OperacionalRenders(
          [ui EXCEPT !.page = IF ui.page - 1 > 1 THEN ui.page - 1 ELSE 1], {"page"})

\* The Next button, rendered when totalPages > 1 and enabled unless
\* page === totalPages: setPage(p => Math.min(totalPages, p + 1)).
NextPage ==
    /\ ui.activeTab = "operacional"
    /\ TotalPages(data, ui) > 1
    /\ ui.page # TotalPages(data, ui)
    /\ OperacionalRenders(
          [ui EXCEPT !.page = IF ui.page + 1 < TotalPages(data, ui)
                              THEN ui.page + 1 ELSE TotalPages(data, ui)],
          {"page"})

\* Executiva: the show-all toggle of the SPX status table.  Its memos only
\* read data and sort arrays they built.
ToggleShowAllSpxStatus ==
    /\ ui.activeTab = "executiva"
    /\ ui' = [ui EXCEPT !.showAllSpxStatus = ~ui.showAllSpxStatus]
    /\ UNCHANGED <<data, hookAround>>

\* Relatorio: toggleStation(station).  filteredData is data itself or a new
\* array; the memos only read it and sort arrays they built.
ToggleStation ==
    /\ ui.activeTab = "relatorio"
    /\ \E station \in StationNames(data) :
          ui' = [ui EXCEPT !.selectedStations =
                    IF station \in Range(ui.selectedStations)
                    THEN SelectSeq(ui.selectedStations, LAMBDA s : s # station)
                    ELSE Append(ui.selectedStations, station)]
    /\ UNCHANGED <<data, hookAround>>

\* A background ingestion (a timer tick's fetch) completes with success
\* while the dashboard shows: setData(parsedData), and the page shown
\* re-renders over the new array with its own state kept.  The loading
\* flag's rise and fall around it change nothing on a populated dashboard.
Reingested ==
    \E d \in ViewData :
        /\ data' = IF ui.activeTab = "operacional"
                   THEN PropAfterOperacional(d, ui) ELSE d
        /\ hist' = Last2(Append(hist, d))
        /\ ui' = IF ui.activeTab = "operacional"
                 THEN Rendered(d, ui, {"data"}) ELSE ui
        /\ UNCHANGED <<revision, phase, loading, error, inflight, last, trigger,
                       arg, res>>

\* Relatorio: a group header of the dropdown is clicked under some search
\* query: the stations rendered are removed when all of them are selected,
\* else those not yet selected are added (Array.from of the Set).
ToggleGroup ==
    /\ ui.activeTab = "relatorio"
    /\ \E g \in DOMAIN StationGroups(data) : \E searchQuery \in SearchQueries :
          LET stationsToRender ==
                  StationsToRender(g, StationGroups(data)[g], searchQuery)
              selected == Range(ui.selectedStations)
          IN  /\ stationsToRender # {}
              /\ ui' = [ui EXCEPT !.selectedStations =
                            IF stationsToRender \subseteq selected
                            THEN SelectSeq(ui.selectedStations,
                                     LAMBDA s : s \notin stationsToRender)
                            ELSE ui.selectedStations
                                     \o SortedNames(stationsToRender \ selected)]
    /\ UNCHANGED <<data, hookAround>>

\* Relatorio: the X of a displayed tag is clicked: removeGroup(tag.id) for a
\* Todos tag, removeStation(tag.id) for a station's tag.
RemoveTag ==
    /\ ui.activeTab = "relatorio"
    /\ \E tag \in DisplayTags(StationGroups(data), ui.selectedStations) :
          ui' = [ui EXCEPT !.selectedStations =
                    IF tag.isGroup
                    THEN SelectSeq(ui.selectedStations,
                             LAMBDA s : s \notin StationGroups(data)[tag.id])
                    ELSE SelectSeq(ui.selectedStations, LAMBDA s : s # tag.id)]
    /\ UNCHANGED <<data, hookAround>>

NextViews ==
    \/ Reingested
    \/ SetActiveTab
    \/ SetFilter
    \/ HandleSort
    \/ ToggleKpi
    \/ ClearKpi
    \/ PrevPage
    \/ NextPage
    \/ ToggleShowAllSpxStatus
    \/ ToggleStation
    \/ ToggleGroup
    \/ RemoveTag

SpecViews == InitViews /\ [][NextViews]_vars

-----------------------------------------------------------------------------
(* The header cells of Operacional's table, clicked one after another.  res
   records the columns clicked, in order. *)

MaxClicks == 4

SortHeaderClicked ==
    /\ ui.activeTab = "operacional"
    /\ Len(res) < MaxClicks
    /\ \E key \in SortKeys :
          LET u == [ui EXCEPT !.sortConfig = handleSort(ui.sortConfig, key)]
          IN  /\ ui' = Rendered(data, u, {"sortConfig"})
              /\ data' = PropAfterOperacional(data, u)
              /\ res' = Append(res, key)
    /\ UNCHANGED <<revision, phase, loading, error, inflight, last, hist, trigger, arg>>

NextSort == SortHeaderClicked

SpecSort == InitViews /\ [][NextSort]_vars

-----------------------------------------------------------------------------
(* The proxy endpoint: GET /api/sheet of the Express server *)

\* req.query.sheetId and req.query.tabName: absent, empty, or a value.
SheetIds == {Undefined, <<>>, <<"1","A","b","C">>, <<"2","x","Y","z">>}

TabNames == {Undefined, <<>>, <<"B","a","s","e">>, <<"B","a","s","e"," ","D","a","d","o","s">>, <<"A","&","B","/","C">>}

\* The escapes encodeURIComponent writes for the reserved characters the
\* tab names hold; letters and digits are kept.
PercentEscapes ==
    [c \in {" ", "&", "/"} |->
        CASE c = " " -> <<"%","2","0">>
          [] c = "&" -> <<"%","2","6">>
          [] c = "/" -> <<"%","2","F">>]

RECURSIVE encodeURIComponent(_)
encodeURIComponent(s) ==
    IF s = <<>> THEN <<>>
    ELSE (IF Head(s) \in DOMAIN PercentEscapes
          THEN PercentEscapes[Head(s)] ELSE <<Head(s)>>)
         \o encodeURIComponent(Tail(s))

\* Line 21: the CSV export URL of the tab.
csvUrl(sheetId, tabName) ==
    <<"h","t","t","p","s",":","/","/","d","o","c","s",".","g","o","o","g","l","e",".","c","o",
      "m","/","s","p","r","e","a","d","s","h","e","e","t","s","/","d","/">> \o sheetId
        \o <<"/","g","v","i","z","/","t","q","?","t","q","x","=","o","u","t",":","c","s","v","&","s",
             "h","e","e","t","=">> \o encodeURIComponent(tabName)

\* Fault variant of MissingParam: only sheetId is required.
MissingParamSheetIdOnly(sheetId, tabName) == ~Truthy(sheetId)

\* Line 17: !sheetId || !tabName
MissingParam(sheetId, tabName) == ~Truthy(sheetId) \/ ~Truthy(tabName)

\* The status line of an upstream response.
UpstreamResponses ==
    { [status |-> 200, statusText |-> <<"O","K">>],
      [status |-> 206, statusText |-> <<"P","a","r","t","i","a","l"," ","C","o","n","t","e","n","t">>],
      [status |-> 403, statusText |-> <<"F","o","r","b","i","d","d","e","n">>],
      [status |-> 404, statusText |-> <<"N","o","t"," ","F","o","u","n","d">>],
      [status |-> 500, statusText |-> <<"I","n","t","e","r","n","a","l"," ","S","e","r","v","e","r"," ","E","r","r","o","r">>] }

NoUpstream == [kind |-> "none", status |-> 0, body |-> <<>>]

\* The server listening, no request received yet.
ProxyIdle ==
    [pc |-> "listening", sheetId |-> Undefined, tabName |-> Undefined,
     fetched |-> <<>>, upstream |-> NoUpstream]

\* res.status(status).json({ error: message })
JsonError(status, message) ==
    [status |-> status, contentType |-> "application/json",
     body |-> <<"{","\"","e","r","r","o","r","\"",":","\"">> \o message \o <<"\"","}">>]

\* The catch of the handler: res.status(500).json(...).
ProxyCatch(kind) ==
    /\ res' = Append(res, JsonError(500, <<"F","a","i","l","e","d"," ","t","o"," ","f","e","t","c","h"," ","f","r","o","m"," ","G",
                                           "o","o","g","l","e"," ","S","h","e","e","t","s">>))
    /\ arg' = [arg EXCEPT !.pc = "done", !.upstream.kind = kind]

InitProxy ==
    /\ HookIdle
    /\ arg = ProxyIdle
    /\ res = <<>>

\* A request arrives (the one before, if any, has been answered): lines
\* 14-24, up to the 400 response or to the await of fetch(csvUrl).
GetApiSheet ==
    /\ arg.pc \in {"listening", "done"}
    /\ \E sheetId \in SheetIds : \E tabName \in TabNames :
          IF MissingParam(sheetId, tabName)
          THEN /\ res' = <<JsonError(400, <<"M","i","s","s","i","n","g"," ","s","h","e","e","t","I","d"," ","o","r"," ","t","a","b",
                                            "N","a","m","e">>)>>
               /\ arg' = [ProxyIdle EXCEPT !.pc = "done", !.sheetId = sheetId,
                                           !.tabName = tabName]
          ELSE /\ res' = <<>>
               /\ arg' = [ProxyIdle EXCEPT !.pc = "fetch", !.sheetId = sheetId,
                                           !.tabName = tabName,
                                           !.fetched = <<csvUrl(sheetId, tabName)>>]
    /\ UNCHANGED <<hookVars, ui>>

\* await fetch(csvUrl) rejects.
ProxyFetchRejected ==
    /\ arg.pc = "fetch"
    /\ ProxyCatch("fetchRejected")
    /\ UNCHANGED <<hookVars, ui>>

\* await fetch(csvUrl) resolves: lines 25-28.
ProxyFetchResponded ==
    /\ arg.pc = "fetch"
    /\ \E response \in UpstreamResponses :
          IF ~ResponseOk(response.status)
          THEN /\ res' = Append(res,
                      [status |-> response.status, contentType |-> "text/html",
                       body |-> <<"F","a","i","l","e","d"," ","t","o"," ","f","e","t","c","h"," ","f","r","o","m"," ","G",
                                  "o","o","g","l","e"," ","S","h","e","e","t","s",":"," ">>
                                    \o response.statusText])
               /\ arg' = [arg EXCEPT !.pc = "done", !.upstream.kind = "notOk",
                                     !.upstream.status = response.status]
          ELSE /\ res' = res
               /\ arg' = [arg EXCEPT !.pc = "text", !.upstream.kind = "ok",
                                     !.upstream.status = response.status]
    /\ UNCHANGED <<hookVars, ui>>

\* await response.text() resolves: lines 29-30.
ProxyTextResolved ==
    /\ arg.pc = "text"
    /\ \E csvText \in Bodies :
          /\ res' = Append(res, [status |-> 200, contentType |-> "text/csv",
                                 body |-> csvText])
          /\ arg' = [arg EXCEPT !.pc = "done", !.upstream.body = csvText]
    /\ UNCHANGED <<hookVars, ui>>

\* await response.text() rejects.
ProxyTextRejected ==
    /\ arg.pc = "text"
    /\ ProxyCatch("textRejected")
    /\ UNCHANGED <<hookVars, ui>>

NextProxy ==
    \/ GetApiSheet
    \/ ProxyFetchRejected
    \/ ProxyFetchResponded
    \/ ProxyTextResolved
    \/ ProxyTextRejected

SpecProxy == InitProxy /\ [][NextProxy]_vars

-----------------------------------------------------------------------------
(* Properties *)

FailureCauses == {"reject", "http", "text", "html", "coerce", "parseError"}

\* The failures the outer catch of fetchData receives.
OuterCatchCauses == {"reject", "http", "text", "html"}

NumericFieldNames == {"days_open_in_station", "days_open_since_rts", "days_stuck"}

\* The string fields of the ShipmentRecord data model.
StringFieldNames ==
    {"shipment_id", "latest_station_name", "responsability", "stuck_aging",
     "since_drop_aging", "in_station_aging", "latest_spx_status"}

\* The source column of each directly mapped field.
ColumnOf(f) ==
    CASE f = "shipment_id"          -> K_shipment_id
      [] f = "latest_station_name"  -> K_latest_station_name
      [] f = "responsability"       -> K_responsability
      [] f = "stuck_aging"          -> K_stuck_aging
      [] f = "since_drop_aging"     -> K_since_drop_aging
      [] f = "in_station_aging"     -> K_in_station_aging
      [] f = "days_open_in_station" -> K_days_open_in_station
      [] f = "days_open_since_rts"  -> K_days_open_since_rts
      [] f = "days_stuck"           -> K_days_stuck

\* The rows the last successful ingestion was given.
LastRows == PapaParse(revision, last.body)

\* The number of non-empty lines after the header line, counted on the text.
DataLineCount(text) ==
    Cardinality({i \in DOMAIN text :
                    /\ text[i] # "\n"
                    /\ i > 1
                    /\ text[i - 1] = "\n"})

\* C1: after two successive successful ingestions whose record sets are
\* disjoint, data is exactly the record sequence of the second and holds no
\* record of the first.
C1_ReingestionReplaces ==
    (Len(hist) = 2 /\ Range(hist[1]) \cap Range(hist[2]) = {})
        => /\ data = hist[2]
           /\ Range(data) \cap Range(hist[1]) = {}

C1_Witness ==
    /\ Len(hist) = 2
    /\ hist[1] # <<>>
    /\ hist[2] # <<>>
    /\ Range(hist[1]) \cap Range(hist[2]) = {}
    /\ last.cause = "ok"

\* C2 as claimed: after every failed ingestion data equals the data held
\* when that ingestion started, and the failure view shows only over empty
\* data.
C2_FailureRestoresStartData ==
    /\ last.cause \in FailureCauses => data = last.start
    /\ View(loading, data, error) = "failure" => data = <<>>

\* C2 amended: a failed ingestion writes no data, so data after the failure
\* is the data held just before the failure was handled, and it is the data
\* held at the ingestion's start unless another ingestion succeeded in
\* between; the failure view shows only over empty data.
C2_FailureWritesNoData ==
    /\ last.cause \in FailureCauses =>
          /\ data = last.before
          /\ ~last.overtaken => data = last.start
    /\ View(loading, data, error) = "failure" => data = <<>>

C2_Witness ==
    /\ last.cause = "html"
    /\ last.before # <<>>
    /\ data = last.before
    /\ ~last.overtaken

\* C3: every numeric field of every coerced record is a finite number >= 0,
\* and is 0 when the cell is missing or does not parse.
C3_NumericFieldsFiniteNonNegative ==
    /\ \A i \in DOMAIN data : \A f \in NumericFieldNames :
          data[i][f].k = "fin" /\ data[i][f].v >= 0
    /\ last.cause = "ok" =>
          \A i \in DOMAIN LastRows : \A f \in NumericFieldNames :
              NumberOf(Get(LastRows[i], ColumnOf(f))) = NaN => data[i][f] = Fin(0)

\* No key of the row names the carrier status in any spelling.
NoSpxColumn(row) ==
    \A j \in DOMAIN row :
        LET n == StripNonAlnum(ToLowerCase(row[j].k))
        IN  ~Includes(n, <<"s","p","x">>) /\ n # <<"s","t","a","t","u","s">>

\* C4: every string field of the data model, latest_spx_status included, is
\* a defined string in every coerced record, and is "" when its column is
\* absent.
C4_StringFieldsDefined ==
    /\ \A i \in DOMAIN data : \A f \in StringFieldNames :
          f \in DOMAIN data[i] /\ IsString(data[i][f])
    /\ last.cause = "ok" =>
          \A i \in DOMAIN LastRows :
              /\ \A f \in StringFieldNames \ {"latest_spx_status"} :
                    Get(LastRows[i], ColumnOf(f)) = Undefined => data[i][f] = <<>>
              /\ (revision = 2 /\ NoSpxColumn(LastRows[i]))
                    => data[i]["latest_spx_status"] = <<>>

\* C5: a successful ingestion of n non-blank data rows yields n records, the
\* i-th being the coercion of the i-th source row.
C5_NoRowDroppedOrderKept ==
    last.cause = "ok" =>
        /\ Len(data) = DataLineCount(last.body)
        /\ \A i \in DOMAIN data : data[i] = CoerceRow(revision, LastRows[i])

C5_Witness ==
    /\ last.cause = "ok"
    /\ last.body = CsvEdge
    /\ Len(data) = 3
    /\ data[3].shipment_id = <<>>
    /\ data[1].shipment_id = <<"B", "1">>

\* C6: an OK response whose body begins, trimmed and in any letter case,
\* with the doctype marker ends as the private-sheet error: error is that
\* message, loading is false, the parser was not invoked, data is unchanged.
C6_DoctypeIsPrivateSheetError ==
    (last.kind = "fetch" /\ last.bodyRead /\ last.body \in DoctypeBodies)
        => /\ last.cause = "html"
           /\ error = PrivateSheetMessage
           /\ ~loading
           /\ ~last.parsed
           /\ data = last.before

C6_Witness ==
    /\ last.cause = "html"
    /\ last.body = HtmlDoctypeUpper
    /\ error = PrivateSheetMessage

\* The decimal text of each status of the model, written out.
StatusText(status) ==
    CASE status = 404 -> <<"4","0","4">>
      [] status = 500 -> <<"5","0","0">>
      [] OTHER -> <<"?">>

\* C7: a response with a non-success status s ends the ingestion failed, with
\* an error that carries s, loading false and data unchanged, and its body
\* is neither read nor parsed.
C7_HttpFailureCarriesStatus ==
    (last.kind = "fetch" /\ last.status # 0 /\ last.status \notin 200..299)
        => /\ last.cause = "http"
           /\ IsString(error)
           /\ Includes(error, StatusText(last.status))
           /\ ~loading
           /\ data = last.before
           /\ ~last.bodyRead
           /\ ~last.parsed

C7_Witness ==
    /\ last.cause = "http"
    /\ last.status = 404
    /\ last.before # <<>>

\* The generic error string of a caught failure: its message, or the fixed
\* default when the message is empty.
GenericErrorOf(err) ==
    IF err.message = <<>> THEN <<"F","a","i","l","e","d"," ","t","o"," ","f","e","t","c","h"," ","d","a","t","a">>
    ELSE err.message

\* C8 as claimed: a failure caught by fetchData becomes CORS_ERROR exactly
\* when its message is 'Failed to fetch', and otherwise its generic error
\* string; error is never null after it.
C8_CorsExactlyOnFailedToFetch ==
    last.cause \in OuterCatchCauses =>
        /\ error # Null
        /\ (error = CORS_ERROR) <=> (last.thrown.message = FailedToFetch)
        /\ error # CORS_ERROR => error = GenericErrorOf(last.thrown)

\* The messages of the model that contain 'Failed to fetch'.
MentionsFailedToFetch(message) ==
    message \in {FailedToFetch,
                 <<"R","e","q","u","e","s","t"," ","a","b","o","r","t","e","d",":"," ","F","a","i","l","e",
                   "d"," ","t","o"," ","f","e","t","c","h">>}

\* C8 amended: revision 1 classifies a caught failure as CORS_ERROR exactly
\* when its message is 'Failed to fetch'; revision 2 exactly when its message
\* contains 'Failed to fetch' or it is a TypeError.  Every other caught
\* failure is surfaced as its generic error string; error is never null
\* after a caught failure.
C8_CorsClassification ==
    last.cause \in OuterCatchCauses =>
        /\ error # Null
        /\ (error = CORS_ERROR) <=>
              IF revision = 1
              THEN last.thrown.message = FailedToFetch
              ELSE \/ MentionsFailedToFetch(last.thrown.message)
                   \/ last.thrown.name = <<"T","y","p","e","E","r","r","o","r">>
        /\ error # CORS_ERROR => error = GenericErrorOf(last.thrown)

C8_Witness ==
    /\ revision = 2
    /\ last.cause = "reject"
    /\ last.thrown.name = N_TypeError
    /\ last.thrown.message # FailedToFetch
    /\ error = CORS_ERROR

\* C9 as claimed: whenever error is the access-restricted error the UI
\* offers upload and retry; any other error in the failure view offers retry
\* only.
C9_CorsAlwaysOffersUpload ==
    /\ error = CORS_ERROR => Offered(loading, data, error) = {"upload", "retry"}
    /\ (View(loading, data, error) = "failure" /\ error # CORS_ERROR)
          => Offered(loading, data, error) = {"retry"}

\* C9 amended: whenever error is the access-restricted error and no data is
\* held, the failure view is shown and offers upload and retry; when data is
\* held the dashboard is shown and offers neither; any other error in the
\* failure view offers retry only.
C9_CorsOffersUploadOverEmptyData ==
    /\ (error = CORS_ERROR /\ data = <<>>)
          => /\ View(loading, data, error) = "failure"
             /\ Offered(loading, data, error) = {"upload", "retry"}
    /\ (error = CORS_ERROR /\ data # <<>>)
          => /\ View(loading, data, error) = "dashboard"
             /\ Offered(loading, data, error) = {}
    /\ (View(loading, data, error) = "failure" /\ error # CORS_ERROR)
          => Offered(loading, data, error) = {"retry"}

C9_Witness ==
    /\ error = CORS_ERROR
    /\ data = <<>>
    /\ last.cause = "reject"
    /\ "upload" \in Offered(loading, data, error)

\* C10 as claimed: in every reachable state the UI offers a manual retry or
\* a file upload.
C10_AlwaysOffersIngestion ==
    Offered(loading, data, error) # {}

\* C10 amended: the UI offers a manual retry exactly in the states where an
\* error is set and no data is held (the failure view); in every other
\* state (the loader, and the dashboard even when error is set) it offers
\* neither retry nor upload, and only the timer starts a new ingestion.
C10_OffersRetryExactlyOnFailureView ==
    /\ ("retry" \in Offered(loading, data, error)) <=> (error # Null /\ data = <<>>)
    /\ ~(error # Null /\ data = <<>>) => Offered(loading, data, error) = {}

C10_Witness ==
    /\ error # Null
    /\ error # CORS_ERROR
    /\ data = <<>>
    /\ last.cause \in FailureCauses
    /\ Offered(loading, data, error) = {"retry"}


\* C11: every ingestion that terminates, on whichever path, leaves loading
\* false; on every path but success it leaves error a non-null, non-empty
\* string; and every termination is one of the handled ones (success, the
\* outer catch, the catch of the complete callback, the error callback), so
\* no exception leaves fetchData or the parser callbacks.
C11_EveryPathSettles ==
    /\ last.cause \in FailureCauses \cup {"ok", "none"}
    /\ last.cause # "none" => ~loading
    /\ last.cause \in FailureCauses => (IsString(error) /\ error # <<>>)

C11_Witness ==
    /\ last.cause = "parseError"
    /\ last.thrown.message = <<>>
    /\ error = FailedToParseCsvFile
    /\ ~loading

\* An ingestion has just ended (Ready or Failed) in a mounted hook.
JustEnded == phase = "mounted" /\ last.cause # "none"

\* The step just taken entered fetchData or handleFileUpload anew.
Reentered == trigger \in {"timer", "retry", "upload"}

\* C12: there is no hard terminal state.  In every state of a mounted hook
\* in which an ingestion has just ended, Ready or Failed, a timer tick, a
\* refetch or a file upload is enabled; and every such step leaves the hook
\* Loading (loading true, error null) with data unchanged.
C12_NoHardTerminalState ==
    /\ [](JustEnded => (~loading /\ ENABLED (TimerTick \/ Refetch \/ HandleFileUpload)))
    /\ [][Reentered' => (loading' /\ error' = Null /\ data' = data)]_vars

\* Loading was entered again after a success: the step just taken started
\* an ingestion, and the dataset of the earlier success is still held.
C12_Witness ==
    /\ Reentered
    /\ loading
    /\ error = Null
    /\ data # <<>>
    /\ \E r \in BagToSet(inflight) : r.start = data /\ ~r.overtaken

\* inflight with one more network ingestion, suspended at fetch(CSV_URL).
OneMoreFetch == inflight (+) SetToBag({Ingestion("fetch", "fetch", data)})

\* C13: mounting starts exactly one network ingestion; while the hook is
\* mounted a timer tick is enabled whatever loading, error, data and the
\* ingestions in flight are, and each tick starts exactly one more network
\* ingestion; once the hook is unmounted it stays so, no tick is enabled
\* and no step starts an ingestion.
C13_MountAndTimerStartIngestions ==
    /\ [][phase = "constructed" =>
            (phase' = "mounted" /\ trigger' = "mount" /\ inflight' = OneMoreFetch)]_vars
    /\ []((phase = "mounted" /\ HasRoom) => ENABLED TimerTick)
    /\ [][trigger' = "timer" => (phase = "mounted" /\ inflight' = OneMoreFetch)]_vars
    /\ [](phase = "unmounted" => ~ENABLED TimerTick)
    /\ [][phase = "unmounted" =>
            /\ phase' = "unmounted"
            /\ trigger' = "none"
            /\ BagCardinality(inflight') <= BagCardinality(inflight)]_vars

\* The timer fired while the ingestion started on mount was still loading.
C13_Witness ==
    /\ phase = "mounted"
    /\ trigger = "timer"
    /\ loading
    /\ hist = <<>>
    /\ BagCardinality(inflight) = 2
    /\ \E r \in BagToSet(inflight) : r.pc = "text"

\* C14: retry and upload both enter with loading true and error null; a
\* successful ingestion leaves as data the record sequence that either path
\* produces for its content, the two being identical; and an upload never
\* goes through the network: it is never suspended at fetch or at
\* response.text(), and ends with no response status.
C14_RetryAndUploadAgree ==
    /\ trigger \in {"retry", "upload"} => (loading /\ error = Null)
    /\ last.cause = "ok" =>
          /\ data = Ingested[revision][last.body].parsedData
          /\ data = Ingested[revision][last.body].uploaded
    /\ \A r \in BagToSet(inflight) : r.kind = "upload" => r.pc = "parse"
    /\ last.kind = "upload" => last.status = 0

\* An uploaded file with human-readable headers was ingested by revision 2.
C14_Witness ==
    /\ revision = 2
    /\ last.cause = "ok"
    /\ last.kind = "upload"
    /\ last.body = CsvSpaced
    /\ Len(data) = 2
    /\ data[1].shipment_id = <<"A", "1">>

\* C15: headers are normalized before fields are looked up, so a successful
\* ingestion of the table under the headers 'Shipment ID,Days Stuck' yields
\* the records of the same table under the canonical headers: shipment_id
\* 'A1' and 'A2', days_stuck 7 and 0.
C15_SpacedHeadersReadAsCanonical ==
    (last.cause = "ok" /\ last.body = CsvSpaced) =>
        /\ data = Ingested[revision][CsvCanonical].parsedData
        /\ Len(data) = 2
        /\ data[1].shipment_id = <<"A", "1">>
        /\ data[2].shipment_id = <<"A", "2">>
        /\ data[1].days_stuck = Fin(7)
        /\ data[2].days_stuck = Fin(0)

\* C16: header normalization is idempotent: for every header over letters
\* of both cases, blanks and underscores, normalizing the normalized header
\* gives the normalized header; and a normalized header holds no whitespace
\* and no upper-case letter.
C16_NormalizationIdempotent ==
    /\ Len(res) = 2 => res[2] = res[1]
    /\ \A n \in DOMAIN res : \A i \in DOMAIN res[n] :
          ~IsWhitespace(res[n][i]) /\ res[n][i] \notin Range(UpperLetters)

\* 'D', a tab, 'i', a blank, 'D' normalizes to 'd_i_d', twice.
C16_Witness ==
    /\ arg = <<"D", "\t", "i", " ", "D">>
    /\ res = << <<"d", "_", "i", "_", "d">>, <<"d", "_", "i", "_", "d">> >>

\* k.toLowerCase().replace(/[^a-z0-9]/g, '') of every column name, computed
\* once.
NormalizedKey ==
    [k \in RowKeys |-> StripNonAlnum(ToLowerCase(k))]

\* Whether the normalized name mentions spx / status, computed once.
MentionsSpx == [k \in RowKeys |-> Includes(NormalizedKey[k], <<"s","p","x">>)]

MentionsStatus == [k \in RowKeys |-> Includes(NormalizedKey[k], <<"s","t","a","t","u","s">>)]

\* The cell of the first column, in column order, whose name satisfies P;
\* undefined when there is none.
FirstCell(row, P(_)) ==
    LET at == {j \in DOMAIN row : P(row[j].k)}
    IN  IF at = {} THEN Undefined
        ELSE row[CHOOSE j \in at : \A m \in at : j <= m].v

\* The value each tier of the reconciliation offers, in precedence order:
\* the three exact keys, the five normalized candidates, the column that
\* mentions spx and status, the column that mentions spx.
Tiers(row) ==
    << FirstCell(row, LAMBDA k : k = K_lastest_spx_status),
       FirstCell(row, LAMBDA k : k = K_latest_spx_status),
       FirstCell(row, LAMBDA k : k = K_spx_status),
       FirstCell(row, LAMBDA k : NormalizedKey[k] = <<"l","a","s","t","e","s","t","s","p","x","s","t","a","t","u","s">>),
       FirstCell(row, LAMBDA k : NormalizedKey[k] = <<"l","a","t","e","s","t","s","p","x","s","t","a","t","u","s">>),
       FirstCell(row, LAMBDA k : NormalizedKey[k] = <<"s","p","x","s","t","a","t","u","s">>),
       FirstCell(row, LAMBDA k : NormalizedKey[k] = <<"s","t","a","t","u","s","s","p","x">>),
       FirstCell(row, LAMBDA k : NormalizedKey[k] = <<"s","t","a","t","u","s">>),
       FirstCell(row, LAMBDA k : MentionsSpx[k] /\ MentionsStatus[k]),
       FirstCell(row, LAMBDA k : MentionsSpx[k]) >>

\* The value of the first tier that is a string / a non-empty string; ""
\* when there is none.
FirstPresent(ts) ==
    LET at == {t \in DOMAIN ts : IsString(ts[t])}
    IN  IF at = {} THEN <<>> ELSE ts[CHOOSE t \in at : \A u \in at : t <= u]

FirstFilled(ts) ==
    LET at == {t \in DOMAIN ts : Truthy(ts[t])}
    IN  IF at = {} THEN <<>> ELSE ts[CHOOSE t \in at : \A u \in at : t <= u]

\* C17 as claimed: for every row the first tier, in precedence order, whose
\* column the row holds decides the result; a row holding spx_status and
\* no other exact key gets the value of spx_status.
C17_FirstPresentTierWins ==
    res # <<>> =>
        LET ts == Tiers(arg)
        IN  /\ res[1] = FirstPresent(ts)
            /\ (IsString(ts[3]) /\ ~IsString(ts[1]) /\ ~IsString(ts[2]))
                  => res[1] = Get(arg, K_spx_status)

\* C17 amended: for every row the first tier, in precedence order, whose
\* cell is not empty decides the result, and the result is "" when no tier
\* has one; a row whose spx_status is not empty and whose other exact keys
\* are absent or empty gets the value of spx_status, whatever near-miss
\* columns it holds.
C17_FirstFilledTierWins ==
    res # <<>> =>
        LET ts == Tiers(arg)
        IN  /\ res[1] = FirstFilled(ts)
            /\ (Truthy(ts[3]) /\ ~Truthy(ts[1]) /\ ~Truthy(ts[2]))
                  => res[1] = Get(arg, K_spx_status)

\* spx_status after its near miss, both filled: spx_status wins.
C17_Witness ==
    /\ arg = << [k |-> <<"s","p","x","_","s","t","a","t","u","s","_","_","1">>, v |-> CellAt(1)],
                [k |-> K_spx_status, v |-> CellAt(2)] >>
    /\ res = <<CellAt(2)>>

\* The bucket of the SPX-status tables: d.latest_spx_status || 'Sem Status'.
StatusBucket(d) ==
    IF "latest_spx_status" \in DOMAIN d /\ Truthy(d.latest_spx_status)
    THEN d.latest_spx_status
    ELSE <<"S","e","m"," ","S","t","a","t","u","s">>

\* Column j of the row is the misspelled status column, in whatever letter
\* case, its cell is not empty, and no other column names the carrier status.
OnlyMisspelledStatusAt(row, j) ==
    /\ ToLowerCase(row[j].k) = K_lastest_spx_status
    /\ Truthy(row[j].v)
    /\ NoSpxColumn(SelectSeq(row, LAMBDA c : c.k # row[j].k))

\* C18: after a successful ingestion, every row whose only SPX-related
\* column is the misspelled one with a non-empty cell v has v as its
\* record's latest_spx_status, and the SPX-status tables count it under v.
C18_MisspelledStatusColumnIsRead ==
    last.cause = "ok" =>
        \A i \in DOMAIN LastRows : \A j \in DOMAIN LastRows[i] :
            OnlyMisspelledStatusAt(LastRows[i], j) =>
                /\ "latest_spx_status" \in DOMAIN data[i]
                /\ data[i]["latest_spx_status"] = LastRows[i][j].v
                /\ StatusBucket(data[i]) = LastRows[i][j].v

\* The cells of a row.
Cells(row) == {row[j].v : j \in DOMAIN row}

\* C19: reconciliation is total and deterministic: for every row it yields
\* one string, the cell of one of the row's columns or "", always the same
\* for the same row; and it yields "" for a row none of whose columns
\* mentions spx or is a bare status column.
C19_ReconciliationTotal ==
    res # <<>> =>
        /\ Len(res) = 1
        /\ IsString(res[1])
        /\ res[1] \in Cells(arg) \cup {<<>>}
        /\ res[1] = extractSpxStatus(arg)
        /\ (\A j \in DOMAIN arg :
                ~MentionsSpx[arg[j].k] /\ NormalizedKey[arg[j].k] # <<"s","t","a","t","u","s">>)
              => res[1] = <<>>

\* A row with an unrelated column only.
C19_Witness ==
    /\ arg = << [k |-> K_shipment_id, v |-> CellAt(1)] >>
    /\ res = << <<>> >>

\* C20: the pages never write the dataset: whatever filters, column sorts,
\* KPI cards, pages, tabs and stations are chosen, data holds the records
\* of the last ingestion in the order the ingestion gave them.
C20_PresentationLeavesData ==
    /\ hist # <<>>
    /\ data = hist[Len(hist)]

\* The table shows the SOC1 shipments ordered by days_stuck, S2 before S1,
\* over a dataset that still lists S3, S1, S2.
C20_Witness ==
    /\ data = ParseFetched(2, CsvStations)
    /\ ui.activeTab = "operacional"
    /\ ui.sortConfig = [key |-> "days_stuck", direction |-> "desc"]
    /\ ui.filters.latest_station_name = <<"S", "O", "C", "1">>
    /\ Len(TableData(data, ui)) = 2
    /\ TableData(data, ui)[1].shipment_id = <<"S", "2">>
    /\ data[2].shipment_id = <<"S", "1">>
-----------------------------------------------------------------------------
(* C21 *)

\* C21: the proxy endpoint sends exactly one response per request.  While
\* the handler waits for the upstream nothing has been sent; once it has
\* returned exactly one response has been sent, and it is: 400 with no
\* upstream fetch issued when sheetId or tabName is missing; otherwise, after
\* one upstream fetch, the upstream status when the upstream response is not
\* OK, the upstream body unchanged under content type text/csv when it is
\* OK, and 500 when the upstream fetch (or the reading of its body) throws.
C21_ProxySendsOneResponse ==
    /\ Len(res) = (IF arg.pc = "done" THEN 1 ELSE 0)
    /\ arg.pc = "done" =>
          IF ~Truthy(arg.sheetId) \/ ~Truthy(arg.tabName)
          THEN res[1].status = 400 /\ arg.fetched = <<>>
          ELSE /\ Len(arg.fetched) = 1
               /\ arg.upstream.kind = "notOk" =>
                     /\ res[1].status = arg.upstream.status
                     /\ ~ResponseOk(res[1].status)
               /\ arg.upstream.kind = "ok" =>
                     /\ res[1].body = arg.upstream.body
                     /\ res[1].contentType = "text/csv"
                     /\ ResponseOk(res[1].status)
               /\ arg.upstream.kind \in {"fetchRejected", "textRejected"} =>
                     res[1].status = 500
               /\ arg.upstream.kind # "none"

\* A tab name with a blank was fetched under its escaped form and the
\* upstream's canonical export came back as text/csv.
C21_Witness ==
    /\ arg.pc = "done"
    /\ arg.tabName = <<"B","a","s","e"," ","D","a","d","o","s">>
    /\ arg.fetched =
          <<<<"h","t","t","p","s",":","/","/","d","o","c","s",".","g","o","o","g","l","e",".","c","o",
              "m","/","s","p","r","e","a","d","s","h","e","e","t","s","/","d","/","1","A","b","C","/",
              "g","v","i","z","/","t","q","?","t","q","x","=","o","u","t",":","c","s","v","&","s","h",
              "e","e","t","=","B","a","s","e","%","2","0","D","a","d","o","s">>>>
    /\ arg.upstream.status = 206
    /\ res = <<[status |-> 200, contentType |-> "text/csv", body |-> CsvCanonical]>>

-----------------------------------------------------------------------------
(* C22 *)

\* What the ingestion that just succeeded parsed.
LastParsed ==
    IF last.kind = "upload" THEN Ingested[revision][last.body].uploaded
    ELSE Ingested[revision][last.body].parsedData

\* C22: when an ingestion succeeds after another one, started while it was
\* in flight or before, has succeeded (the two overlapped), data is what
\* the one completing now produced, whichever started first; and starting
\* an ingestion cancels none: every ingestion in flight stays in flight.
C22_LastToCompleteWins ==
    /\ []((last.cause = "ok" /\ last.overtaken) =>
            (data = LastParsed /\ data = hist[Len(hist)]))
    /\ [][trigger' \in {"timer", "retry", "upload"} =>
            (/\ inflight \sqsubseteq inflight'
             /\ BagCardinality(inflight') = BagCardinality(inflight) + 1)]_vars

\* Two overlapping fetches both succeeded with different exports; the one
\* that completed last started before the other one completed.
C22_Witness ==
    /\ last.cause = "ok"
    /\ last.overtaken
    /\ Len(hist) = 2
    /\ hist[1] # hist[2]
    /\ hist[1] # <<>>
    /\ data = hist[2]
    /\ last.start = <<>>

-----------------------------------------------------------------------------
(* C23 *)

\* The network fetches in flight: awaiting fetch() or response.text().
FetchesInFlight == {r \in BagToSet(inflight) : r.kind = "fetch"}

\* C23 as claimed: a network fetch that has not completed keeps loading
\* true.  The network is never bound to answer, so a state where a fetch is
\* in flight is a state of an execution in which that fetch hangs for ever.
C23_HungFetchKeepsLoading == FetchesInFlight # {} => loading

\* C23 amended: starting a fetch sets loading, and loading falls only in a
\* step that completes an ingestion (the hung one or any other; there is no
\* timeout and no other step that lowers it).  So loading stays true from
\* the start of a hung fetch until some other ingestion completes, and for
\* ever when none does.
C23_LoadingFallsOnlyOnCompletion ==
    [][/\ trigger' \in {"mount", "timer", "retry"} => loading'
       /\ (loading /\ ~loading') =>
             /\ last'.cause # "none"
             /\ BagCardinality(inflight') = BagCardinality(inflight) - 1]_vars

\* The fetch of the mount still hangs after a later one succeeded, and the
\* next timer tick has raised loading again over the populated dashboard.
C23_Witness ==
    /\ \E r \in FetchesInFlight : r.pc = "fetch" /\ r.overtaken /\ r.start = <<>>
    /\ data # <<>>
    /\ loading
    /\ trigger = "timer"

-----------------------------------------------------------------------------
(* C24 *)

\* The records of the current data that pass every dropdown filter not on
\* All, in data order.
DropdownFiltered == SelectSeq(data, LAMBDA item : Matches(item, ui.filters))

\* Those of them that also pass the predicate of the active KPI card.
KpiFiltered ==
    SelectSeq(DropdownFiltered,
        LAMBDA item : KpiKeeps(item, DropdownFiltered, ui.activeKpi))

\* How many rows hold more than n in a numeric column.
CountOver(rows, key, n) ==
    Cardinality({i \in DOMAIN rows : NumLess(Fin(n), rows[i][key])})

\* C24: while Operacional shows, the rows of its table (before pagination)
\* are exactly the records of the current data that pass every non-empty
\* dropdown filter and the predicate of the active KPI card, in data order
\* when no sort is configured, and the KPI counters (total, stuck over 5
\* days, critical over 20 days) are the counts of those predicates over the
\* dropdown-filtered records of the current data.
C24_OperacionalProjectsCurrentData ==
    ui.activeTab = "operacional" =>
        /\ Len(ui.tableData) = Len(KpiFiltered)
        /\ Range(ui.tableData) = Range(KpiFiltered)
        /\ ~Sorting(ui.sortConfig) => ui.tableData = KpiFiltered
        /\ Len(ui.filteredData) = Len(DropdownFiltered)
        /\ CountOver(ui.filteredData, "days_stuck", 5)
              = CountOver(DropdownFiltered, "days_stuck", 5)
        /\ CountOver(ui.filteredData, "days_open_since_rts", 20)
              = CountOver(DropdownFiltered, "days_open_since_rts", 20)

\* With a station filter, a sort and the stuck card active, a re-ingestion
\* replaced the 26-shipment table by the 3-shipment one: the table shows the
\* one shipment of the new data that is at SOC1 and stuck over 5 days.
C24_Witness ==
    /\ ui.activeTab = "operacional"
    /\ Len(hist) = 2
    /\ Len(hist[1]) = 26
    /\ data = hist[2]
    /\ Len(data) = 3
    /\ ui.filters.latest_station_name = <<"S","O","C","1">>
    /\ ui.activeKpi = "STUCK_5"
    /\ ui.sortConfig.key = "days_stuck"
    /\ Len(ui.filteredData) = 2
    /\ Len(ui.tableData) = 1
    /\ ui.tableData[1].shipment_id = <<"S","2">>

-----------------------------------------------------------------------------
(* C25 *)

\* C25 as claimed: when the ingestion completed in the step just taken
\* succeeded and none is in flight, error is null.
C25_SuccessLeavesNoError ==
    (last.cause = "ok" /\ inflight = EmptyBag) => error = Null

\* C25 amended: a success writes no error.  error is cleared by every
\* start, set by every failure, and left as it is by every success and by
\* every other step; so after a success with nothing in flight error is
\* null exactly when no ingestion has failed since the latest start.
C25_SuccessKeepsError ==
    [][/\ last'.cause = "ok" => error' = error
       /\ trigger' # "none" => error' = Null
       /\ last'.cause \in FailureCauses => error' # Null
       /\ error' # error => (trigger' # "none" \/ last'.cause \in FailureCauses)]_vars

\* Two overlapping ingestions both succeeded and nothing is in flight:
\* error is null.
C25_Witness ==
    /\ last.cause = "ok"
    /\ last.overtaken
    /\ inflight = EmptyBag
    /\ error = Null
    /\ data # <<>>

-----------------------------------------------------------------------------
(* C26 *)

\* C26 as claimed: loading is true whenever an ingestion has been started
\* and has not completed.
C26_LoadingWhileAnyInFlight == inflight # EmptyBag => loading

\* C26 amended: loading is one flag for all ingestions.  It is true right
\* after a start (fetch or file parse), false right after a completion
\* whatever else is still in flight, and once the hook is mounted it is
\* true only while some ingestion is in flight.
C26_LoadingFollowsLatestEvent ==
    /\ trigger # "none" => (loading /\ inflight # EmptyBag)
    /\ last.cause # "none" => ~loading
    /\ loading => (inflight # EmptyBag \/ phase = "constructed")

\* A file parse has just been started while a fetch is still in flight:
\* loading is true.
C26_Witness ==
    /\ trigger = "upload"
    /\ BagCardinality(inflight) = 2
    /\ FetchesInFlight # {}
    /\ loading

-----------------------------------------------------------------------------
(* C27 *)

\* The view App returns in the current state.
Shown == View(loading, data, error)

\* The three-way rule of App, stated on null-ness of error, and its
\* consequence for data that is not empty.
ThreeViewRule ==
    /\ Shown \in {"loader", "failure", "dashboard"}
    /\ Shown = "loader" <=> (loading /\ data = <<>>)
    /\ Shown = "failure" <=> (~(loading /\ data = <<>>) /\ error # Null /\ data = <<>>)
    /\ data # <<>> => Shown = "dashboard"

\* C27 as claimed: the three-way rule, and an ingestion that completes over
\* a populated dashboard leaves the dashboard shown.
C27_RefreshKeepsPopulatedDashboard ==
    /\ ThreeViewRule
    /\ (last.cause # "none" /\ last.before # <<>>) => Shown = "dashboard"

\* C27 amended: the three-way rule; and the view leaves a populated
\* dashboard only in a step where an ingestion succeeds with no record,
\* which empties data: the failure view then shows when error is still set
\* (by a failure of an overlapping ingestion), the empty dashboard
\* otherwise.  No start and no failed ingestion replaces a populated
\* dashboard.
C27_OnlyEmptySuccessLeavesDashboard ==
    /\ []ThreeViewRule
    /\ [][(data # <<>> /\ View(loading', data', error') # "dashboard") =>
             (/\ last'.cause = "ok"
              /\ data' = <<>>
              /\ error' = error
              /\ error # Null
              /\ View(loading', data', error') = "failure")]_vars

\* A refresh has just failed over a populated dashboard while another is
\* in flight: error is set, loading was lowered, the dashboard still shows.
C27_Witness ==
    /\ last.cause \in FailureCauses
    /\ last.before # <<>>
    /\ data = last.before
    /\ error # Null
    /\ inflight # EmptyBag
    /\ Shown = "dashboard"

-----------------------------------------------------------------------------
(* C28 *)

\* The station is shown by a displayed tag: its own, or the Todos tag of
\* its group.
Represented(s) ==
    \E tag \in DisplayTags(StationGroups(data), ui.selectedStations) :
        \/ ~tag.isGroup /\ tag.id = s
        \/ tag.isGroup /\ s \in StationGroups(data)[tag.id]

\* C28 as claimed: while Relatorio shows, every selected station is
\* represented by a displayed tag.
C28_EverySelectedStationHasTag ==
    ui.activeTab = "relatorio" =>
        \A s \in Range(ui.selectedStations) : Represented(s)

\* C28 amended: a selected station is represented by a displayed tag
\* exactly when it is a station of the current data; so every selected
\* station is represented as long as no ingestion has replaced the data the
\* selection was made over, and afterwards those the new data still holds.
C28_SelectedStationsOfDataHaveTags ==
    ui.activeTab = "relatorio" =>
        /\ \A s \in Range(ui.selectedStations) :
              Represented(s) <=> s \in StationNames(data)
        /\ Len(hist) = 1 => \A s \in Range(ui.selectedStations) : Represented(s)

\* Over the later export all of its SOC group and XPT7 were selected, then
\* the three-shipment table was ingested: SOC1 is still shown by the Todos
\* tag of its group, soc9 and XPT7 are selected and have no tag.
C28_Witness ==
    /\ ui.activeTab = "relatorio"
    /\ Range(ui.selectedStations) = {<<"S","O","C","1">>, <<"s","o","c","9">>, <<"X","P","T","7">>}
    /\ Len(data) = 3
    /\ DisplayTags(StationGroups(data), ui.selectedStations)
          = {[id |-> <<"S","O","C">>, isGroup |-> TRUE]}
    /\ Represented(<<"S","O","C","1">>)
    /\ ~Represented(<<"X","P","T","7">>)

-----------------------------------------------------------------------------
(* C29 *)

\* C29: while Operacional shows, and the page-reset effect of the render
\* has run, 1 <= page <= max(1, totalPages), with totalPages the number of
\* pages of 25 rows the table needs; no Previous or Next click, filter
\* change, KPI toggle, sort or re-ingestion leaves that range.
C29_PageWithinRange ==
    ui.activeTab = "operacional" =>
        /\ TotalPages(data, ui) * RowsPerPage >= Len(ui.tableData)
        /\ (TotalPages(data, ui) - 1) * RowsPerPage < Len(ui.tableData)
              \/ Len(ui.tableData) = 0
        /\ 1 <= ui.page
        /\ ui.page <= (IF TotalPages(data, ui) > 1 THEN TotalPages(data, ui) ELSE 1)

\* The second page of the 26-shipment table shows, after a re-ingestion.
C29_Witness ==
    /\ ui.activeTab = "operacional"
    /\ ui.page = 2
    /\ TotalPages(data, ui) = 2
    /\ Len(ui.tableData) = 26
    /\ Len(hist) = 2

-----------------------------------------------------------------------------
(* C30 *)

\* The number of clicks at the end of the sequence that hit the column of
\* the last one.
TrailingClicks(clicks) ==
    IF clicks = <<>> THEN 0
    ELSE LET other == {i \in 1..Len(clicks) : clicks[i] # clicks[Len(clicks)]}
         IN  Len(clicks) - (IF other = {} THEN 0
                            ELSE CHOOSE i \in other : \A j \in other : j <= i)

\* C30: the sort of Operacional's table is a cycle of three per column:
\* after n clicks in a row on one column it is ascending on that column
\* when n leaves 1 modulo 3, descending when it leaves 2 and unsorted, key
\* and direction both null, when it leaves 0; the first click on another
\* column gives ascending on it; key is null exactly when direction is.
C30_SortCycle ==
    LET n == TrailingClicks(res)
    IN  /\ ui.sortConfig.key = "null" <=> ui.sortConfig.direction = "null"
        /\ n % 3 = 0 => ui.sortConfig = [key |-> "null", direction |-> "null"]
        /\ n % 3 = 1 => ui.sortConfig = [key |-> res[Len(res)], direction |-> "asc"]
        /\ n % 3 = 2 => ui.sortConfig = [key |-> res[Len(res)], direction |-> "desc"]

\* One column was clicked through its whole cycle, then another one.
C30_Witness ==
    /\ res = <<"days_stuck", "days_stuck", "days_stuck", "shipment_id">>
    /\ ui.sortConfig = [key |-> "shipment_id", direction |-> "asc"]
    /\ Len(data) = 26

====
